---- MODULE Spec2Model ----
(***************************************************************************)
(* A model of git-auto-commit-message: the change classifier, the message  *)
(* formatter, the two generation backends (OpenAI, DashScope), the         *)
(* fan-out of generateMultipleOptions and the orchestrator GitAutoCommit.  *)
(*                                                                         *)
(* Text is modelled as a sequence of one-character strings, so that        *)
(* trimming, splitting, prefix tests and the conventional-commit regular   *)
(* expression are computed character by character as the code does.        *)
(***************************************************************************)
EXTENDS Integers, Sequences, FiniteSets, TLC

VARIABLES
    \* ---- formatter (formatCommitMessage applied to a backend reply)
    fProvider,      \* config.aiProvider of the generator that formats
    fStyle,         \* config.style
    fContent,       \* choices[0].message.content, before trim()
    fAnalysis,      \* the analysis argument: [type, scope]
    fPc,            \* "raw" | "once" | "twice"
    fOut1,          \* formatCommitMessage(content.trim(), analysis)
    fOut2,          \* formatCommitMessage(fOut1, analysis)
    \* ---- the repository as the version-control backend reports it
    repoStatus,     \* path -> porcelain status code ("" when unchanged)
    stagedDiff,     \* text of  git diff --staged
    workingDiff,    \* text of  git diff
    \* ---- classifier (GitAnalyzer.analyzeChanges / hasChanges)
    cPc,            \* "idle" | "ready" | "analyzed"
    hasChangesResult,   \* what hasChanges() returned
    analysis,       \* what analyzeChanges() returned
    \* ---- one generateCommitMessage call of the generation backend
    config,         \* the GeneratorConfig the generator was built from
    gPc,            \* "idle" | "ready" | "awaiting" | "done"
    request,        \* the request sent to the provider
    response,       \* what the provider answered
    gResult,        \* the settled promise: fulfilled value or rejection
    formatCalls,    \* number of formatCommitMessage invocations
    \* ---- generateMultipleOptions of the generation backend
    count,          \* the count argument
    mPc,            \* "idle" | "ready" | "waiting" | "returned" | "threw"
    promises,       \* index -> the promise of that generate call
    replies,        \* index -> what the provider answered that call
    requestsSent,   \* index -> number of requests sent for that call
    completionOrder,    \* the indices in the order their calls settled
    mResults,       \* the returned candidates
    mError,         \* the error thrown
    \* ---- the orchestrator: GitAutoCommit.generateCommitMessage
    isRepo,         \* the working directory is inside a git repository
    commitCount,    \* number of commits on the current branch
    silent,         \* this.silent
    oPc,            \* position in generateCommitMessage
    diff,           \* const diff = await getDiff()
    recentCommits,  \* number of entries getRecentCommits(5) returned
    oFailure,       \* the call that failed during this run ("" if none)
    oResult,        \* the value generateCommitMessage returned
    printed,        \* what the run wrote to the console
    entry,          \* "one": generateCommitMessage, "multiple":
                    \* generateMultipleOptions
    gitCalls,       \* the GitAnalyzer methods the run has called, in order
    \* ---- truncateDiff, applied to the diff the prompt is built from
    tDiff,          \* the diff argument
    tPc,            \* "idle" | "ready" | "done"
    tOut,           \* what truncateDiff(diff) returned
    \* ---- GitAnalyzer.commitChanges and the commit command
    commitPc,       \* "idle" | "status" | "add" | "commit" | "returned"
                    \* | "threw"
    commitMessage,  \* the message argument
    statusRead,     \* const status = await this.git.status()
    repoAtCall,     \* the repository when that status was read
    gitOps,         \* the git commands commitChanges ran, in order
    commitError,    \* the message of the error commitChanges threw
    history,        \* the commits made: [message, paths]
    cmdPc,          \* "idle" | "start" | "committing" | "done"
    cmdOptions,     \* the options of gac commit: [message, add, push]
    cmdReport,      \* the last line of the spinner
    cmdExit,        \* the status process.exit was given, 0 at a normal end
    \* ---- GitHooks: the hooks directory of the repository
    gitDir,         \* .git exists in the working directory
    hookFile,       \* .git/hooks/prepare-commit-msg: [exists, content]
    backups,        \* the files prepare-commit-msg.backup.<stamp>:
                    \* a set of [stamp, content]
    clock,          \* Date.now()
    hookTrail,      \* the operations run so far, each with the hook and
                    \* the backups it found and the value it returned
    \* ---- ConfigManager: the persisted configuration
    configFile,     \* ~/.git-auto-commit/config.json: [exists, values]
    \* ---- GitAutoCommit.initializeAI and generate --hook
    sPc,            \* "idle" | "start" | "configuring" | "probing"
                    \* | "returned" | "threw" | "exited"
    aiGenerator,    \* this.aiGenerator: [built, config]
    lastProbe,      \* the last validateApiKey(): [done, config, valid]
    prompts,        \* number of interactive prompts opened
    stdout,         \* the lines console.log wrote during set-up and exit
    sError,         \* the message of the error initializeAI threw
    exitStatus,     \* the status process.exit was given
    dialogs,        \* number of configuration dialogs answered
    \* ---- the config command
    cfgPc,          \* "idle" | "start" | "done"
    cfgOptions,     \* the --set-* options given
    fileAtStart,    \* configFile when the command started
    cfgOut          \* what the command reported

fmtVars == <<fProvider, fStyle, fContent, fAnalysis, fPc, fOut1, fOut2>>
repoVars == <<repoStatus, stagedDiff, workingDiff>>
clsVars == <<cPc, hasChangesResult, analysis>>

genVars == <<config, gPc, request, response, gResult, formatCalls>>

multiVars == <<count, mPc, promises, replies, requestsSent, completionOrder,
               mResults, mError>>

orchVars == <<isRepo, commitCount, silent, oPc, diff, recentCommits,
              oFailure, oResult, printed, entry, gitCalls>>

truncVars == <<tDiff, tPc, tOut>>

commitVars == <<commitPc, commitMessage, statusRead, repoAtCall, gitOps,
                commitError, history, cmdPc, cmdOptions, cmdReport, cmdExit>>

\* the command-line side: committing, hooks, set-up and configuration
hookVars == <<gitDir, hookFile, backups, clock, hookTrail>>

setupVars == <<sPc, aiGenerator, lastProbe, prompts, stdout, sError,
               exitStatus, dialogs>>

cfgVars == <<cfgPc, cfgOptions, fileAtStart, cfgOut>>

cliVars == <<commitVars, hookVars, configFile, setupVars, cfgVars>>

\* everything but the repository and the command-line side
coreVars == <<fmtVars, clsVars, genVars, multiVars, orchVars, truncVars>>

vars == <<fmtVars, repoVars, clsVars, genVars, multiVars, orchVars, truncVars,
          cliVars>>

-----------------------------------------------------------------------------
(* Text helpers *)

\* String.prototype.startsWith
StartsWith(s, p) == Len(s) >= Len(p) /\ SubSeq(s, 1, Len(p)) = p

\* s.slice(n)
Drop(s, n) == SubSeq(s, n + 1, Len(s))

\* the characters String.prototype.trim() strips (of the model's alphabet)
IsWhitespace(c) == c \in {" ", "\n"}

RECURSIVE TrimStart(_)
TrimStart(s) ==
    IF s # <<>> /\ IsWhitespace(Head(s)) THEN TrimStart(Tail(s)) ELSE s

RECURSIVE TrimEnd(_)
TrimEnd(s) ==
    IF s # <<>> /\ IsWhitespace(s[Len(s)])
    THEN TrimEnd(SubSeq(s, 1, Len(s) - 1)) ELSE s

\* String.prototype.trim()
Trim(s) == TrimEnd(TrimStart(s))

\* String.prototype.includes
Includes(s, sub) ==
    \E i \in 0..(Len(s) - Len(sub)) : SubSeq(s, i + 1, i + Len(sub)) = sub

\* position of the first separator in s, or 0
FirstIndexOf(s, sep) ==
    IF \E i \in 1..Len(s) : s[i] = sep
    THEN CHOOSE i \in 1..Len(s) : s[i] = sep /\ \A j \in 1..(i - 1) : s[j] # sep
    ELSE 0

\* String.prototype.split(sep) for a one-character separator
RECURSIVE Split(_, _)
Split(s, sep) ==
    LET i == FirstIndexOf(s, sep)
    IN IF i = 0 THEN <<s>>
       ELSE <<SubSeq(s, 1, i - 1)>> \o Split(Drop(s, i), sep)

\* the array itself, duplicates kept: what  results  is without the Set
KeepDuplicates(xs) == xs

\* [...new Set(xs)]: the first occurrence of each element, in order
RECURSIVE Dedup(_)
Dedup(xs) ==
    IF xs = <<>> THEN <<>>
    ELSE LET front == Dedup(SubSeq(xs, 1, Len(xs) - 1))
             last == xs[Len(xs)]
         IN IF \E i \in 1..Len(front) : front[i] = last
            THEN front ELSE Append(front, last)

\* the JavaScript expression  v || d  for a number: 0 is falsy
OrDefaultNum(v, d) == IF v = 0 THEN d ELSE v

\* the JavaScript expression  v || d  for a name (a model, a style, a
\* language): the empty string is falsy
OrDefaultName(v, d) == IF v = "" THEN d ELSE v

-----------------------------------------------------------------------------
(* The seven conventional-commit type tags *)

feat     == <<"f", "e", "a", "t">>
fix      == <<"f", "i", "x">>
docs     == <<"d", "o", "c", "s">>
style    == <<"s", "t", "y", "l", "e">>
refactor == <<"r", "e", "f", "a", "c", "t", "o", "r">>
test     == <<"t", "e", "s", "t">>
chore    == <<"c", "h", "o", "r", "e">>

TypeTags == {feat, fix, docs, style, refactor, test, chore}

-----------------------------------------------------------------------------
(* Message formatter *)

\* the regular expression's tail  ": .+"  (. matches anything but a line end)
MatchColonTail(r) ==
    Len(r) >= 3 /\ r[1] = ":" /\ r[2] = " " /\ r[3] # "\n"

\* the optional group  "(\(.+\))"  followed by the tail
MatchScopeThenTail(r) ==
    \E k \in 3..Len(r) :
        /\ r[1] = "("
        /\ r[k] = ")"
        /\ \A j \in 2..(k - 1) : r[j] # "\n"
        /\ MatchColonTail(Drop(r, k))

\* /^(feat|fix|docs|style|refactor|test|chore)(\(.+\))?: .+/.test(message)
isConventionalFormat(message) ==
    \E t \in TypeTags :
        /\ StartsWith(message, t)
        /\ \/ MatchColonTail(Drop(message, Len(t)))
           \/ MatchScopeThenTail(Drop(message, Len(t)))

\* the style the generator formats with: AICommitGenerator reads config.style,
\* DashScopeGenerator reads options.style = config.style || 'conventional'
\* (defaulted in setupGenerator and again in its constructor)
EffectiveStyle(provider, cfgStyle) ==
    IF provider = "dashscope"
    THEN OrDefaultName(OrDefaultName(cfgStyle, "conventional"), "conventional")
    ELSE cfgStyle

\* a formatter that does not look whether the message is already formatted
FormatWithoutShapeTest(message, an, st) ==
    IF st = "conventional"
    THEN LET scope == IF an.scope # <<>>
                      THEN <<"(">> \o an.scope \o <<")">>
                      ELSE <<>>
         IN an.type \o scope \o <<":", " ">> \o message
    ELSE message

\* a formatter that prefixes whatever the style
FormatWhateverStyle(message, an, st) ==
    IF isConventionalFormat(message) THEN message
    ELSE LET scope == IF an.scope # <<>>
                      THEN <<"(">> \o an.scope \o <<")">>
                      ELSE <<>>
         IN an.type \o scope \o <<":", " ">> \o message

\* formatCommitMessage(message, analysis), the same code in both generators
formatCommitMessage(message, an, st) ==
    IF isConventionalFormat(message) THEN message
    ELSE IF st = "conventional"
         THEN LET scope == IF an.scope # <<>>
                           THEN <<"(">> \o an.scope \o <<")">>
                           ELSE <<>>
              IN an.type \o scope \o <<":", " ">> \o message
         ELSE message

-----------------------------------------------------------------------------
(* Inputs of the formatter *)

MaxTail == 3

Providers == {"openai", "dashscope"}
Styles    == {"conventional", "free"}

TailChars == {":", " ", "a", "\n"}

Tails == UNION {[1..n -> TailChars] : n \in 0..MaxTail}

Heads == {<<>>, feat, docs, feat \o <<"(", "a", ")">>, feat \o <<"(", ")">>,
          <<"f", "e", "a">>}

\* backend reply texts: a head (a tag, a tag with a scope, or neither)
\* followed by up to MaxTail further characters
Contents == {h \o t : h \in Heads, t \in Tails}

Scopes == {<<>>, <<"s", "r", "c">>}

FormatAnalyses == [type : TypeTags, scope : Scopes]

FmtIdle ==
    /\ fProvider = "openai"
    /\ fStyle = "conventional"
    /\ fContent = <<>>
    /\ fAnalysis = [type |-> feat, scope |-> <<>>]
    /\ fPc = "idle"
    /\ fOut1 = <<>>
    /\ fOut2 = <<>>

FmtInit ==
    /\ fProvider \in Providers
    /\ fStyle \in Styles
    /\ fContent \in Contents
    /\ fAnalysis \in FormatAnalyses
    /\ fPc = "raw"
    /\ fOut1 = <<>>
    /\ fOut2 = <<>>

\* the generator trims the reply and formats it
FormatReply ==
    /\ fPc = "raw"
    /\ fOut1' = formatCommitMessage(Trim(fContent), fAnalysis,
                                    EffectiveStyle(fProvider, fStyle))
    /\ fPc' = "once"
    /\ UNCHANGED <<fProvider, fStyle, fContent, fAnalysis, fOut2>>
    /\ UNCHANGED <<repoVars, clsVars, genVars, multiVars, orchVars, truncVars,
                   cliVars>>

\* the formatter applied to its own output
FormatAgain ==
    /\ fPc = "once"
    /\ fOut2' = formatCommitMessage(fOut1, fAnalysis,
                                    EffectiveStyle(fProvider, fStyle))
    /\ fPc' = "twice"
    /\ UNCHANGED <<fProvider, fStyle, fContent, fAnalysis, fOut1>>
    /\ UNCHANGED <<repoVars, clsVars, genVars, multiVars, orchVars, truncVars,
                   cliVars>>


-----------------------------------------------------------------------------
(* The repository, as simple-git's status() and diff() report it *)

p1       == <<"1", "/", "x">>
README   == <<"R", "E", "A", "D", "M", "E">>
pReadme  == README
pLib     == <<"l", "i", "b", "/", "c">>
pSrcA    == <<"s", "r", "c", "/", "a">>
pSrcTest == <<"s", "r", "c", "/", "t", "e", "s", "t">>
pOld     == <<"o", "l", "d", "/", "n">>

\* the paths of the model, in the order git status lists tracked entries
PathOrder == <<p1, pReadme, pLib, pSrcA, pSrcTest>>
Paths == {PathOrder[i] : i \in 1..Len(PathOrder)}

\* more paths: names the type rules look for, with and without a directory,
\* and a directory named like the prototype accessor of a JavaScript object
ProtoKey == <<"_", "_", "p", "r", "o", "t", "o", "_", "_">>
pProto   == ProtoKey \o <<"/", "a">>
pConfig  == <<"c", "o", "n", "f", "i", "g">>
pDocs    == <<"d", "o", "c", "s", "/", "a">>
pMain    == <<"m">>
pSrcAJs  == <<"s", "r", "c", "/", "a", ".", "j", "s">>
pTest    == <<"t", "e", "s", "t">>

\* every path, in the order git status lists tracked entries
ListingOrder ==
    <<p1, pReadme, pProto, pConfig, pDocs, pLib, pMain, pSrcA, pSrcAJs,
      pSrcTest, pTest>>

\* porcelain codes (index, working tree); "" is an unchanged path; git add
\* turns " D" into "D "
Codes == {"", " M", "M ", "A ", " D", "??", "R "}

RepoStates == [Paths -> Codes]

\* the entries of a repository state (a function from its paths to codes)
PathsWithCode(repo, codes) ==
    SelectSeq(ListingOrder, LAMBDA p : p \in DOMAIN repo /\ repo[p] \in codes)

\* the StatusResult of git.status(): tracked entries first, untracked last
\* files: every entry, whatever its code
StatusFiles(repo) ==
    PathsWithCode(repo, {" M", "M ", "A ", " D", "D ", "R "})
        \o PathsWithCode(repo, {"??"})

GitStatus(repo) ==
    [ staged    |-> PathsWithCode(repo, {"M ", "A ", "D "}),
      modified  |-> PathsWithCode(repo, {" M", "M "}),
      created   |-> PathsWithCode(repo, {"A "}),
      deleted   |-> PathsWithCode(repo, {" D", "D "}),
      renamed   |-> [i \in 1..Len(PathsWithCode(repo, {"R "})) |->
                        [from |-> pOld, to |-> PathsWithCode(repo, {"R "})[i]]],
      not_added |-> PathsWithCode(repo, {"??"}),
      files     |-> StatusFiles(repo) ]

\* sample diff texts
NL == "\n"
SampleDiffs ==
    { <<>>,
      <<"+", "a", NL, "-", "b", NL, "+", "c">> }

RepoIdle ==
    /\ repoStatus = [p \in Paths |-> ""]
    /\ stagedDiff = <<>>
    /\ workingDiff = <<>>

-----------------------------------------------------------------------------
(* Change classifier: GitAnalyzer *)

\* getChangedFiles(): the five lists analyzeChanges is given
getChangedFiles(status) ==
    [ staged   |-> status.staged,
      modified |-> status.modified,
      created  |-> status.created,
      deleted  |-> status.deleted,
      renamed  |-> status.renamed ]

\* a check that takes every status for a changed one
AlwaysChanged(status) == TRUE

\* hasChanges(): status.files.length > 0
hasChanges(status) == Len(status.files) > 0

\* analysis.files = [...new Set([...staged, ...modified, ...created, ...deleted])]
ChangeSet(changes) ==
    Dedup(changes.staged \o changes.modified \o changes.created
          \o changes.deleted)

\* await getStagedDiff() || await getWorkingDiff()
DiffForStats(staged, working) == IF staged # <<>> THEN staged ELSE working

\* a count that leaves out the file header lines '+++' and '---'
CountLinesStartingWithoutHeaders(d, c) ==
    IF d = <<>> THEN 0
    ELSE Len(SelectSeq(Split(d, NL),
                       LAMBDA line : /\ StartsWith(line, <<c>>)
                                     /\ ~StartsWith(line, <<c, c, c>>)))

\* lines.filter(line => line.startsWith(c)).length, 0 for a falsy diff
CountLinesStarting(d, c) ==
    IF d = <<>> THEN 0
    ELSE Len(SelectSeq(Split(d, NL), LAMBDA line : StartsWith(line, <<c>>)))

\* files.some(file => file.includes(s1) || file.includes(s2) ...)
SomeIncludes(files, subs) ==
    \E i \in 1..Len(files) : \E sub \in subs : Includes(files[i], sub)

\* a chain that looks for 'doc' / 'README' before 'test'
InferTypeDocsFirst(changes, files) ==
    IF Len(changes.created) > 0 THEN feat
    ELSE IF Len(changes.deleted) > 0 THEN feat
    ELSE IF SomeIncludes(files, {<<"d", "o", "c">>, README}) THEN docs
    ELSE IF SomeIncludes(files, {test}) THEN test
    ELSE IF SomeIncludes(files, {<<"c", "o", "n", "f", "i", "g">>,
                                 <<"p", "a", "c", "k", "a", "g", "e", ".",
                                   "j", "s", "o", "n">>})
         THEN chore
    ELSE feat

\* a chain that decides by the first changed file alone
InferTypeOfFirstFile(changes, files) ==
    IF files = <<>> THEN feat
    ELSE IF \E i \in 1..Len(changes.created) : changes.created[i] = files[1]
         THEN feat
    ELSE IF \E i \in 1..Len(changes.deleted) : changes.deleted[i] = files[1]
         THEN feat
    ELSE IF Includes(files[1], test) THEN test
    ELSE IF Includes(files[1], <<"d", "o", "c">>) \/ Includes(files[1], README)
         THEN docs
    ELSE IF Includes(files[1], <<"c", "o", "n", "f", "i", "g">>) THEN chore
    ELSE feat

\* the type inference chain
InferType(changes, files) ==
    IF Len(changes.created) > 0 THEN feat
    ELSE IF Len(changes.deleted) > 0 THEN feat
    ELSE IF SomeIncludes(files, {test}) THEN test
    ELSE IF SomeIncludes(files, {<<"d", "o", "c">>, README}) THEN docs
    ELSE IF SomeIncludes(files, {<<"c", "o", "n", "f", "i", "g">>,
                                 <<"p", "a", "c", "k", "a", "g", "e", ".",
                                   "j", "s", "o", "n">>})
         THEN chore
    ELSE feat

\* file.split('/'): parts.length > 1 ? parts[0] : ''
FirstSegment(file) ==
    LET parts == Split(file, "/")
    IN IF Len(parts) > 1 THEN parts[1] ELSE <<>>

\* the scope candidates in the order the tally first meets them: the own
\* keys of scopeCounts in insertion order.  scopeCounts is a plain object
\* ({}), so  scopeCounts['__proto__'] = ...  goes to the prototype accessor,
\* which ignores a value that is not an object, and adds no key.  (The
\* other names of Object.prototype members are not among the paths here.)
ScopeInsertionOrder(files) ==
    Dedup(SelectSeq([i \in 1..Len(files) |-> FirstSegment(files[i])],
                    LAMBDA sc : sc # <<>> /\ sc # ProtoKey))

\* scopeCounts[scope]
ScopeCount(files, sc) ==
    Len(SelectSeq(files, LAMBDA f : FirstSegment(f) = sc))

Digits == <<"0", "1", "2", "3", "4", "5", "6", "7", "8", "9">>
IsDigit(c) == \E d \in 1..Len(Digits) : Digits[d] = c
DigitValue(c) == (CHOOSE d \in 1..Len(Digits) : Digits[d] = c) - 1

RECURSIVE NumericValue(_)
NumericValue(k) ==
    IF k = <<>> THEN 0
    ELSE NumericValue(SubSeq(k, 1, Len(k) - 1)) * Len(Digits)
         + DigitValue(k[Len(k)])

\* a property name that is a canonical array index (an "integer key"):
\* decimal digits without a leading zero, below 2^32 - 1 (every such name
\* of fewer than ten digits)
IsIntegerKey(k) ==
    /\ k # <<>>
    /\ \A i \in 1..Len(k) : IsDigit(k[i])
    /\ (Len(k) = 1 \/ k[1] # "0")
    /\ Len(k) < Len(Digits)

\* ks sorted by ascending numeric value
RECURSIVE SortNumeric(_)
SortNumeric(ks) ==
    IF ks = <<>> THEN <<>>
    ELSE LET m == CHOOSE i \in 1..Len(ks) :
                    \A j \in 1..Len(ks) :
                        NumericValue(ks[i]) <= NumericValue(ks[j])
         IN <<ks[m]>> \o SortNumeric(SubSeq(ks, 1, m - 1)
                                     \o SubSeq(ks, m + 1, Len(ks)))

\* Object.keys(scopeCounts): integer keys in ascending order, then the
\* other keys in insertion order
ObjectKeys(inserted) ==
    SortNumeric(SelectSeq(inserted, IsIntegerKey))
        \o SelectSeq(inserted, LAMBDA k : ~IsIntegerKey(k))

\* the reduction with >= in place of >: a tie keeps the earlier key
RECURSIVE ReduceScopeKeepingTies(_, _)
ReduceScopeKeepingTies(files, keys) ==
    IF Len(keys) = 1 THEN keys[1]
    ELSE LET a == ReduceScopeKeepingTies(files, SubSeq(keys, 1, Len(keys) - 1))
             b == keys[Len(keys)]
         IN IF ScopeCount(files, a) >= ScopeCount(files, b) THEN a ELSE b

\* keys.reduce((a, b) => scopeCounts[a] > scopeCounts[b] ? a : b)
RECURSIVE ReduceScope(_, _)
ReduceScope(files, keys) ==
    IF Len(keys) = 1 THEN keys[1]
    ELSE LET a == ReduceScope(files, SubSeq(keys, 1, Len(keys) - 1))
             b == keys[Len(keys)]
         IN IF ScopeCount(files, a) > ScopeCount(files, b) THEN a ELSE b

InferScope(files) ==
    LET keys == ObjectKeys(ScopeInsertionOrder(files))
    IN IF Len(keys) > 0 THEN ReduceScope(files, keys) ELSE <<>>

\* analyzeChanges(), given what getChangedFiles() and the diff reads returned
analyzeChanges(changes, d) ==
    LET files == ChangeSet(changes)
    IN [ type  |-> InferType(changes, files),
         scope |-> InferScope(files),
         files |-> files,
         stats |-> [ additions    |-> CountLinesStarting(d, "+"),
                     deletions    |-> CountLinesStarting(d, "-"),
                     filesChanged |-> Len(files) ] ]

NoAnalysis ==
    [ type  |-> chore, scope |-> <<>>, files |-> <<>>,
      stats |-> [additions |-> 0, deletions |-> 0, filesChanged |-> 0] ]

ClsIdle ==
    /\ cPc = "idle"
    /\ hasChangesResult = FALSE
    /\ analysis = NoAnalysis

ClsInit ==
    /\ repoStatus \in RepoStates
    /\ stagedDiff \in SampleDiffs
    /\ workingDiff \in SampleDiffs
    /\ cPc = "ready"
    /\ hasChangesResult = FALSE
    /\ analysis = NoAnalysis

\* hasChanges() and analyzeChanges() on one and the same repository state
Classify ==
    /\ cPc = "ready"
    /\ hasChangesResult' = hasChanges(GitStatus(repoStatus))
    /\ analysis' = analyzeChanges(getChangedFiles(GitStatus(repoStatus)),
                                  DiffForStats(stagedDiff, workingDiff))
    /\ cPc' = "analyzed"
    /\ UNCHANGED <<repoVars, fmtVars, genVars, multiVars, orchVars, truncVars,
                   cliVars>>

-----------------------------------------------------------------------------
(* Generation backend: AICommitGenerator (OpenAI) and DashScopeGenerator *)

\* defaults of the generators; temperatures are in tenths (3 is 0.3)
DefaultMaxTokens   == 100
DefaultTemperature == 3

\* thrown Error objects: the fixed part of the message and the part
\* interpolated into it.  The fixed parts, in the source:
\*   "OpenAI quota"        OpenAI API配额不足，请检查账户余额
\*   "OpenAI invalid key"  无效的OpenAI API密钥
\*   "OpenAI API error: "  OpenAI API错误: ${error.message}
\*   "DashScope API error: "   百炼API错误: ${data.message || statusText}
\*   "AI generation failed: "  AI生成提交信息失败: ${error.message}
\*   "multiple options failed: "  生成多个提交信息选项失败: ${error.message}
Error(prefix, detail) == [prefix |-> prefix, detail |-> detail]
NoError == Error("", "")

\* the messages of the errors thrown inside the try blocks
InvalidOpenAIResponse    == "invalid OpenAI API response"
InvalidDashScopeResponse == "invalid API response format"
TypeErrorMessage         == "TypeError: cannot read properties of null"

\* what a failing request throws into the catch block: the fields the
\* catch blocks read (error.code, error.message, error.response)
Thrown(code, message, hasResponse, dataMessage, statusText) ==
    [ code |-> code, message |-> message, hasResponse |-> hasResponse,
      dataMessage |-> dataMessage, statusText |-> statusText ]
LocalThrow(message) == Thrown("", message, FALSE, "", "")

\* the outcome of a try block: a returned value or a thrown error
Returned(value) ==
    [thrown |-> FALSE, value |-> value, err |-> LocalThrow(""),
     formatted |-> TRUE]
Threw(err) ==
    [thrown |-> TRUE, value |-> <<>>, err |-> err, formatted |-> FALSE]

\* a settled promise
Fulfilled(value, formatted) ==
    [status |-> "fulfilled", value |-> value, error |-> NoError,
     formatted |-> formatted]
Rejected(error, formatted) ==
    [status |-> "rejected", value |-> <<>>, error |-> error,
     formatted |-> formatted]
Pending ==
    [status |-> "pending", value |-> <<>>, error |-> NoError,
     formatted |-> FALSE]

\* the error code OpenAI reports for a rejection cause
OpenAICode(cause) ==
    CASE cause = "invalid_credentials" -> "invalid_api_key"
      [] cause = "insufficient_quota"  -> "insufficient_quota"
      [] OTHER                         -> "rate_limit_exceeded"

\* the HTTP status text of a rejection cause
StatusText(cause) ==
    CASE cause = "invalid_credentials" -> "Unauthorized"
      [] cause = "insufficient_quota"  -> "Too Many Requests"
      [] OTHER                         -> "Too Many Requests"

\* the error a provider answer makes the awaited call throw
\* (openai.chat.completions.create / axios.post)
RequestThrows(provider, resp) ==
    IF resp.kind = "network_error"
    THEN Thrown("", resp.message, FALSE, "", "")
    ELSE IF provider = "dashscope"
         THEN Thrown("", "Request failed", TRUE, resp.message,
                     StatusText(resp.cause))
         ELSE Thrown(OpenAICode(resp.cause), resp.message, FALSE, "", "")

\* the try block after the await: both generators test the choice list,
\* take choices[0].message.content, trim it and format it
AfterAwait(resp, an, st, invalidMessage) ==
    IF resp.hasChoices /\ Len(resp.choices) > 0
    THEN IF resp.choices[1].isNull
         THEN Threw(LocalThrow(TypeErrorMessage))
         ELSE Returned(formatCommitMessage(Trim(resp.choices[1].content),
                                           an, st))
    ELSE Threw(LocalThrow(invalidMessage))

TryBlock(provider, resp, an, st) ==
    IF resp.kind # "reply" THEN Threw(RequestThrows(provider, resp))
    ELSE AfterAwait(resp, an, st,
                    IF provider = "dashscope" THEN InvalidDashScopeResponse
                    ELSE InvalidOpenAIResponse)

\* catch (error) of generateWithOpenAI
CatchOpenAI(err) ==
    IF err.code = "insufficient_quota" THEN Error("OpenAI quota", "")
    ELSE IF err.code = "invalid_api_key" THEN Error("OpenAI invalid key", "")
    ELSE Error("OpenAI API error: ", err.message)

\* catch (error) of DashScopeGenerator.generateCommitMessage
CatchDashScope(err) ==
    IF err.hasResponse
    THEN Error("DashScope API error: ",
               OrDefaultName(err.dataMessage, err.statusText))
    ELSE Error("AI generation failed: ", err.message)

\* the promise of one generate call, settled by the provider's answer
HandleResponse(provider, resp, an, st) ==
    LET t == TryBlock(provider, resp, an, st)
    IN IF ~t.thrown THEN Fulfilled(t.value, t.formatted)
       ELSE Rejected(IF provider = "dashscope" THEN CatchDashScope(t.err)
                     ELSE CatchOpenAI(t.err),
                     t.formatted)

\* the parameters of the request.  OpenAI: config.x || default.  DashScope:
\* setupGenerator passes config.x || default and the constructor applies
\* options.x || default again.
BuildRequest(cfg) ==
    IF cfg.aiProvider = "dashscope"
    THEN [ model       |-> OrDefaultName(OrDefaultName(cfg.model,
                                             "qwen-turbo"), "qwen-turbo"),
           max_tokens  |-> OrDefaultNum(OrDefaultNum(cfg.maxTokens,
                                            DefaultMaxTokens), DefaultMaxTokens),
           temperature |-> OrDefaultNum(OrDefaultNum(cfg.temperature,
                                            DefaultTemperature),
                                        DefaultTemperature) ]
    ELSE [ model       |-> OrDefaultName(cfg.model, "gpt-3.5-turbo"),
           max_tokens  |-> OrDefaultNum(cfg.maxTokens, DefaultMaxTokens),
           temperature |-> OrDefaultNum(cfg.temperature, DefaultTemperature) ]

NoRequest == [model |-> "", max_tokens |-> 0, temperature |-> 0]

(* Inputs of the generation backend *)

\* valid configurations: maxTokens > 0, temperature in [0, 1] (tenths)
Configs ==
    [ aiProvider  : Providers,
      model       : {"qwen-plus"},
      style       : Styles,
      maxTokens   : {1, 100, 200},
      temperature : {0, 3, 10} ]

Choice(content) == [content |-> content, isNull |-> FALSE]
NullChoice == [content |-> <<>>, isNull |-> TRUE]

ReplyContents ==
    { <<"a">>, <<" ", "b", NL>>, <<" ">>, feat \o <<":", " ", "a">> }

Causes == {"invalid_credentials", "insufficient_quota", "rate_limited"}

Reply(choices) ==
    [ kind |-> "reply", hasChoices |-> TRUE, choices |-> choices,
      cause |-> "", message |-> "" ]
ReplyWithoutChoices ==
    [ kind |-> "reply", hasChoices |-> FALSE, choices |-> <<>>,
      cause |-> "", message |-> "" ]
ApiError(cause, message) ==
    [ kind |-> "api_error", hasChoices |-> FALSE, choices |-> <<>>,
      cause |-> cause, message |-> message ]
NetworkError(message) ==
    [ kind |-> "network_error", hasChoices |-> FALSE, choices |-> <<>>,
      cause |-> "", message |-> message ]
NoResponse == NetworkError("")

\* what the provider may answer to one request
Responses ==
    {Reply(<<Choice(c)>>) : c \in ReplyContents}
        \cup {Reply(<<Choice(<<"a">>), Choice(<<"b">>)>>),
              Reply(<<NullChoice>>), Reply(<<>>), ReplyWithoutChoices}
        \cup {ApiError(c, m) : c \in Causes, m \in {"", "denied"}}
        \cup {NetworkError("timeout")}

\* analyses of sample repository states
SampleAnalyses ==
    { analyzeChanges(getChangedFiles(GitStatus(
          [p \in Paths |-> IF p = pSrcA THEN "A " ELSE ""])), <<"+", "a">>),
      analyzeChanges(getChangedFiles(GitStatus(
          [p \in Paths |-> IF p = pReadme THEN " M" ELSE ""])), <<"-", "a">>) }

GenIdle ==
    /\ config = [aiProvider |-> "openai", model |-> "", style |-> "free",
                 maxTokens |-> DefaultMaxTokens,
                 temperature |-> DefaultTemperature]
    /\ gPc = "idle"
    /\ request = NoRequest
    /\ response = NoResponse
    /\ gResult = Pending
    /\ formatCalls = 0

GenInit ==
    /\ config \in Configs
    /\ analysis \in SampleAnalyses
    /\ cPc = "idle"
    /\ hasChangesResult = FALSE
    /\ gPc = "ready"
    /\ request = NoRequest
    /\ response = NoResponse
    /\ gResult = Pending
    /\ formatCalls = 0

\* generateCommitMessage(diff, analysis, recentCommits) up to its await:
\* the request is built from the configuration and sent
SendRequest ==
    /\ gPc = "ready"
    /\ request' = BuildRequest(config)
    /\ gPc' = "awaiting"
    /\ UNCHANGED <<config, response, gResult, formatCalls>>
    /\ UNCHANGED <<fmtVars, repoVars, clsVars, multiVars, orchVars, truncVars,
                   cliVars>>

\* the provider answers and the rest of generateCommitMessage runs
ReceiveResponse ==
    /\ gPc = "awaiting"
    /\ \E resp \in Responses :
        /\ response' = resp
        /\ gResult' = HandleResponse(config.aiProvider, resp, analysis,
                          EffectiveStyle(config.aiProvider, config.style))
    /\ formatCalls' = formatCalls + (IF gResult'.formatted THEN 1 ELSE 0)
    /\ gPc' = "done"
    /\ UNCHANGED <<config, request>>
    /\ UNCHANGED <<fmtVars, repoVars, clsVars, multiVars, orchVars, truncVars,
                   cliVars>>

-----------------------------------------------------------------------------
(* validateApiKey: a probe request with a budget of one token *)

\* the probe request: model, messages [{role: 'user', content: 'test'}],
\* max_tokens 1.  OpenAI: config.model || 'gpt-3.5-turbo'; DashScope:
\* options.model, defaulted as in BuildRequest.
ProbeRequest(cfg) ==
    [ model      |-> BuildRequest(cfg).model,
      max_tokens |-> 1,
      content    |-> "test" ]

\* the provider answered the probe with a 2xx status
Answered(status) ==
    [ kind |-> "answered", status |-> status, cause |-> "", message |-> "" ]

\* what the provider may answer to the probe
ProbeAnswers ==
    { Answered(200), Answered(204),
      ApiError("invalid_credentials", "denied"),
      ApiError("insufficient_quota", "quota"),
      NetworkError("timeout") }

\* a probe whose catch block throws the error on
ProbeRethrowing(provider, resp) ==
    IF resp.kind # "answered"
    THEN Rejected(Error("validation failed: ", resp.message), FALSE)
    ELSE IF provider = "dashscope"
         THEN Fulfilled(resp.status = 200, FALSE)
         ELSE Fulfilled(TRUE, FALSE)

\* the promise of validateApiKey(), settled by the provider's answer:
\* the awaited request throws on an HTTP error or a network failure and the
\* catch block returns false; OpenAI returns true after the await,
\* DashScope returns response.status === 200
validateApiKey(provider, resp) ==
    IF resp.kind # "answered" THEN Fulfilled(FALSE, FALSE)
    ELSE IF provider = "dashscope"
         THEN Fulfilled(resp.status = 200, FALSE)
         ELSE Fulfilled(TRUE, FALSE)

ProbeInit ==
    /\ config \in Configs
    /\ analysis = NoAnalysis
    /\ cPc = "idle"
    /\ hasChangesResult = FALSE
    /\ gPc = "ready"
    /\ request = NoRequest
    /\ response = NoResponse
    /\ gResult = Pending
    /\ formatCalls = 0

\* validateApiKey() up to its await: the probe request is sent
SendProbe ==
    /\ gPc = "ready"
    /\ request' = ProbeRequest(config)
    /\ gPc' = "probing"
    /\ UNCHANGED <<config, response, gResult, formatCalls>>
    /\ UNCHANGED <<fmtVars, repoVars, clsVars, multiVars, orchVars, truncVars,
                   cliVars>>

\* the provider answers the probe and validateApiKey() returns
ReceiveProbeAnswer ==
    /\ gPc = "probing"
    /\ \E resp \in ProbeAnswers :
        /\ response' = resp
        /\ gResult' = validateApiKey(config.aiProvider, resp)
    /\ gPc' = "validated"
    /\ UNCHANGED <<config, request, formatCalls>>
    /\ UNCHANGED <<fmtVars, repoVars, clsVars, multiVars, orchVars, truncVars,
                   cliVars>>

-----------------------------------------------------------------------------
(* generateMultipleOptions: count concurrent generate calls joined by
   Promise.all *)

MaxCount == 3

\* the error generateMultipleOptions throws around the first rejection
MultiError(cause) == [prefix |-> "multiple options failed: ", cause |-> cause]
NoMultiError == [prefix |-> "", cause |-> NoError]

\* the first index of order whose promise is rejected
FirstRejected(ps, order) ==
    order[CHOOSE k \in 1..Len(order) :
            /\ ps[order[k]].status = "rejected"
            /\ \A j \in 1..(k - 1) : ps[order[j]].status # "rejected"]

\* a join that collects the values as the promises settle, in completion
\* order, instead of in index order
JoinInCompletionOrder(ps, order) ==
    IF \E i \in DOMAIN ps : ps[i].status = "rejected"
    THEN [state |-> "rejected", values |-> <<>>,
          reason |-> ps[FirstRejected(ps, order)].error]
    ELSE IF \A i \in DOMAIN ps : ps[i].status = "fulfilled"
         THEN [state |-> "fulfilled",
               values |-> [k \in 1..Len(order) |-> ps[order[k]].value],
               reason |-> NoError]
         ELSE [state |-> "pending", values |-> <<>>, reason |-> NoError]

\* Promise.allSettled with the rejections filtered out: waits for every
\* promise and returns the values of those that were fulfilled
JoinAllSettled(ps, order) ==
    IF \A i \in DOMAIN ps : ps[i].status # "pending"
    THEN [state |-> "fulfilled",
          values |-> LET ok == SelectSeq([i \in 1..Len(ps) |-> i],
                                   LAMBDA i : ps[i].status = "fulfilled")
                     IN [k \in 1..Len(ok) |-> ps[ok[k]].value],
          reason |-> NoError]
    ELSE [state |-> "pending", values |-> <<>>, reason |-> NoError]

\* Promise.race: settles with the first promise to settle
JoinRace(ps, order) ==
    IF order = <<>>
    THEN [state |-> IF Len(ps) = 0 THEN "fulfilled" ELSE "pending",
          values |-> <<>>, reason |-> NoError]
    ELSE IF ps[order[1]].status = "rejected"
         THEN [state |-> "rejected", values |-> <<>>,
               reason |-> ps[order[1]].error]
         ELSE [state |-> "fulfilled", values |-> <<ps[order[1]].value>>,
               reason |-> NoError]

\* Promise.all(promises): rejected with the reason of the first promise to
\* reject, else fulfilled with the values in index order once every
\* promise is fulfilled, else pending
PromiseAll(ps, order) ==
    IF \E i \in DOMAIN ps : ps[i].status = "rejected"
    THEN [state |-> "rejected", values |-> <<>>,
          reason |-> ps[FirstRejected(ps, order)].error]
    ELSE IF \A i \in DOMAIN ps : ps[i].status = "fulfilled"
         THEN [state |-> "fulfilled",
               values |-> [i \in 1..Len(ps) |-> ps[i].value],
               reason |-> NoError]
         ELSE [state |-> "pending", values |-> <<>>, reason |-> NoError]

\* the configurations and provider answers of the fan-out
MultiConfigs ==
    {c \in Configs : c.maxTokens = DefaultMaxTokens
                     /\ c.temperature = DefaultTemperature}

MultiResponses ==
    { Reply(<<Choice(<<"a">>)>>),
      Reply(<<Choice(<<"b">>)>>),
      Reply(<<Choice(<<" ", "b", NL>>)>>),
      Reply(<<Choice(<<"c">>)>>),
      Reply(<<>>),
      ApiError("insufficient_quota", "denied") }

MultiIdle ==
    /\ count = 0
    /\ mPc = "idle"
    /\ promises = <<>>
    /\ replies = <<>>
    /\ requestsSent = <<>>
    /\ completionOrder = <<>>
    /\ mResults = <<>>
    /\ mError = NoMultiError

MultiInit ==
    /\ config \in MultiConfigs
    /\ analysis = analyzeChanges(getChangedFiles(GitStatus(
                      [p \in Paths |-> IF p = pSrcA THEN "A " ELSE ""])),
                      <<"+", "a">>)
    /\ cPc = "idle"
    /\ hasChangesResult = FALSE
    /\ gPc = "idle"
    /\ request = NoRequest
    /\ response = NoResponse
    /\ gResult = Pending
    /\ formatCalls = 0
    /\ count \in 0..MaxCount
    /\ mPc = "ready"
    /\ promises = <<>>
    /\ replies = <<>>
    /\ requestsSent = <<>>
    /\ completionOrder = <<>>
    /\ mResults = <<>>
    /\ mError = NoMultiError

\* what the awaiting generateMultipleOptions does once Promise.all settles
AfterJoin(join) ==
    IF join.state = "fulfilled"
    THEN [pc |-> "returned", results |-> Dedup(join.values),
          error |-> NoMultiError]
    ELSE IF join.state = "rejected"
         THEN [pc |-> "threw", results |-> <<>>,
               error |-> MultiError(join.reason)]
         ELSE [pc |-> "waiting", results |-> <<>>, error |-> NoMultiError]

\* generateMultipleOptions up to its await: Array(count).fill().map(...)
\* starts the count generate calls, each of which sends its request
LaunchCalls ==
    /\ mPc = "ready"
    /\ promises' = [i \in 1..count |-> Pending]
    /\ replies' = [i \in 1..count |-> NoResponse]
    /\ requestsSent' = [i \in 1..count |-> 1]
    /\ LET after == AfterJoin(PromiseAll(promises', completionOrder))
       IN /\ mPc' = after.pc
          /\ mResults' = after.results
          /\ mError' = after.error
    /\ UNCHANGED <<count, completionOrder>>

\* generateMultipleOptions called on the generator directly
LaunchAll ==
    /\ LaunchCalls
    /\ UNCHANGED <<fmtVars, repoVars, clsVars, genVars, orchVars, truncVars,
                   cliVars>>

\* the provider answers call i: its promise settles, and when that settles
\* Promise.all the awaiting generateMultipleOptions resumes
CompleteCall(i) ==
    /\ mPc \in {"waiting", "threw"}
    /\ promises[i].status = "pending"
    /\ \E resp \in MultiResponses :
        /\ replies' = [replies EXCEPT ![i] = resp]
        /\ promises' = [promises EXCEPT ![i] =
              HandleResponse(config.aiProvider, resp, analysis,
                             EffectiveStyle(config.aiProvider, config.style))]
    /\ completionOrder' = Append(completionOrder, i)
    /\ LET after == AfterJoin(PromiseAll(promises', completionOrder'))
       IN /\ mPc' = after.pc
          /\ mResults' = after.results
          /\ mError' = after.error
    /\ UNCHANGED <<count, requestsSent>>

\* ... when generateMultipleOptions was called on the generator directly
Complete(i) ==
    /\ CompleteCall(i)
    /\ UNCHANGED <<fmtVars, repoVars, clsVars, genVars, orchVars, truncVars,
                   cliVars>>


-----------------------------------------------------------------------------
(* truncateDiff: the diff placed in the prompt, cut to maxLines lines *)

\* truncateDiff(diff, maxLines = 50)
DefaultMaxLines == 50

\* the line appended to a truncated diff: '... (truncated)'
TruncatedMarker ==
    <<".", ".", ".", " ", "(", "t", "r", "u", "n", "c", "a", "t", "e", "d", ")">>

\* Array.prototype.join(sep)
RECURSIVE Join(_, _)
Join(lines, sep) ==
    IF lines = <<>> THEN <<>>
    ELSE IF Len(lines) = 1 THEN lines[1]
         ELSE lines[1] \o sep \o Join(Tail(lines), sep)

\* a truncation that keeps the first maxLines lines and adds no marker
TruncateWithoutMarker(d, maxLines) ==
    IF d = <<>> THEN <<>>
    ELSE LET lines == Split(d, NL)
         IN IF Len(lines) <= maxLines THEN d
            ELSE Join(SubSeq(lines, 1, maxLines), <<NL>>)

\* truncateDiff(diff, maxLines)
truncateDiff(d, maxLines) ==
    IF d = <<>> THEN <<>>
    ELSE LET lines == Split(d, NL)
         IN IF Len(lines) <= maxLines THEN d
            ELSE Join(SubSeq(lines, 1, maxLines), <<NL>>)
                     \o <<NL>> \o TruncatedMarker

\* how far the diffs given to truncateDiff go beyond maxLines lines
MaxExtraLines == 3

\* the lines the diffs are made of
LineKinds == {"blank", "added", "removed", "mixed", "marker"}
DiffLine(kind, i) ==
    CASE kind = "blank" -> <<>>
      [] kind = "added" -> <<"+", "a">>
      [] kind = "removed" -> <<"-">>
      [] kind = "mixed" -> IF i % 3 = 0 THEN <<"+", "a">>
                           ELSE IF i % 3 = 1 THEN <<"-", "b">> ELSE <<" ">>
      [] kind = "header" -> IF i % 2 = 1 THEN <<"-", "-", "-", " ", "a">>
                            ELSE <<"+", "+", "+", " ", "b">>
      [] OTHER -> TruncatedMarker

\* a diff of n lines of one kind, with or without a final newline
DiffOfLines(kind, n, finalNewline) ==
    Join([i \in 1..n |-> DiffLine(kind, i)], <<NL>>)
        \o (IF finalNewline THEN <<NL>> ELSE <<>>)

TruncIdle ==
    /\ tDiff = <<>>
    /\ tPc = "idle"
    /\ tOut = <<>>

TruncInit ==
    /\ tDiff \in {DiffOfLines(kind, n, nl) :
                    kind \in LineKinds,
                    n \in 0..(DefaultMaxLines + MaxExtraLines),
                    nl \in BOOLEAN}
    /\ tPc = "ready"
    /\ tOut = <<>>

\* ${this.truncateDiff(diff)} in the prompt
Truncate ==
    /\ tPc = "ready"
    /\ tOut' = truncateDiff(tDiff, DefaultMaxLines)
    /\ tPc' = "done"
    /\ UNCHANGED tDiff
    /\ UNCHANGED <<fmtVars, repoVars, clsVars, genVars, multiVars, orchVars,
                   cliVars>>

-----------------------------------------------------------------------------
(* GitAnalyzer.commitChanges, and the commit command of the command line *)

\* git add . : every change of the working tree enters the index
StageAll(repo) ==
    [p \in DOMAIN repo |->
        CASE repo[p] = " M" -> "M "
          [] repo[p] = "??" -> "A "
          [] repo[p] = " D" -> "D "
          [] OTHER -> repo[p]]

\* the paths with an entry in the index, and those changed in the working
\* tree only
IndexPaths(repo) == {p \in DOMAIN repo : repo[p] \in {"M ", "A ", "D ", "R "}}
WorkingPaths(repo) == {p \in DOMAIN repo : repo[p] \in {" M", " D", "??"}}

\* git commit: the index becomes the new head
CommitIndex(repo) ==
    [p \in DOMAIN repo |-> IF p \in IndexPaths(repo) THEN "" ELSE repo[p]]

\* the text git diff --staged gives once git add . has run: the hunks of
\* both diffs and of the untracked files (sections in listing order in git)
StagedDiffAfterAdd(repo, staged, working) ==
    staged \o working
        \o (IF \E p \in DOMAIN repo : repo[p] = "??"
            THEN <<"+", "n">> ELSE <<>>)

\* if (status.staged.length === 0 && status.files.length > 0)
NeedsStageAll(st) == Len(st.staged) = 0 /\ Len(st.files) > 0

GitOp(op, ok) == [op |-> op, ok |-> ok]

NoStatus == GitStatus([p \in Paths |-> ""])
NoCommitError == ""
\* the prefix of the rethrown error
CommitFailed == "commit failed"

\* the methods of class GitAutoCommit
GitAutoCommitMethods ==
    { "initializeAI", "generateCommitMessage", "generateMultipleOptions",
      "interactiveCommit", "showStatusSummary" }

\* calling a method the object does not have throws a TypeError
CallThrows(method) == method \notin GitAutoCommitMethods

CommitMessages == {"fix: a", "wip"}

\* options of the commit command; message "" when -m is not given
CommandOptions ==
    [message : {""} \cup CommitMessages, add : BOOLEAN, push : BOOLEAN]

NoReport == ""
NotExited == -1

CommitIdle ==
    /\ commitPc = "idle"
    /\ commitMessage = ""
    /\ statusRead = NoStatus
    /\ repoAtCall = [p \in Paths |-> ""]
    /\ gitOps = <<>>
    /\ commitError = NoCommitError
    /\ history = <<>>
    /\ cmdPc = "idle"
    /\ cmdOptions = [message |-> "", add |-> FALSE, push |-> FALSE]
    /\ cmdReport = NoReport
    /\ cmdExit = NotExited

\* catch (error) { throw new Error(`提交失败: ${error.message}`) }
CommitThrows(op) ==
    /\ gitOps' = Append(gitOps, GitOp(op, FALSE))
    /\ commitError' = CommitFailed
    /\ commitPc' = "threw"

\* const status = await this.git.status()
CommitStatus ==
    /\ commitPc = "status"
    /\ \E ok \in BOOLEAN :
        IF ok
        THEN /\ statusRead' = GitStatus(repoStatus)
             /\ repoAtCall' = repoStatus
             /\ gitOps' = Append(gitOps, GitOp("status", TRUE))
             /\ commitPc' = IF NeedsStageAll(GitStatus(repoStatus))
                            THEN "add" ELSE "commit"
             /\ UNCHANGED commitError
        ELSE /\ CommitThrows("status")
             /\ UNCHANGED <<statusRead, repoAtCall>>
    /\ UNCHANGED <<commitMessage, history>>
    /\ UNCHANGED <<cmdPc, cmdOptions, cmdReport, cmdExit>>
    /\ UNCHANGED <<coreVars, repoVars, hookVars, configFile, setupVars,
                   cfgVars>>

\* await this.git.add('.')
CommitAdd ==
    /\ commitPc = "add"
    /\ \E ok \in BOOLEAN :
        IF ok
        THEN /\ repoStatus' = StageAll(repoStatus)
             /\ stagedDiff' =
                  StagedDiffAfterAdd(repoStatus, stagedDiff, workingDiff)
             /\ workingDiff' = <<>>
             /\ gitOps' = Append(gitOps, GitOp("add", TRUE))
             /\ commitPc' = "commit"
             /\ UNCHANGED commitError
        ELSE /\ CommitThrows("add")
             /\ UNCHANGED repoVars
    /\ UNCHANGED <<commitMessage, statusRead, repoAtCall, history>>
    /\ UNCHANGED <<cmdPc, cmdOptions, cmdReport, cmdExit>>
    /\ UNCHANGED <<coreVars, hookVars, configFile, setupVars, cfgVars>>

\* await this.git.commit(message); return true
\* with an empty index git commits nothing: the call then fails or resolves
\* with an empty summary
CommitCommit ==
    /\ commitPc = "commit"
    /\ \E ok \in BOOLEAN :
        IF ok
        THEN /\ history' =
                  IF IndexPaths(repoStatus) = {} THEN history
                  ELSE Append(history, [message |-> commitMessage,
                                        paths |-> IndexPaths(repoStatus)])
             /\ repoStatus' = CommitIndex(repoStatus)
             /\ stagedDiff' = <<>>
             /\ gitOps' = Append(gitOps, GitOp("commit", TRUE))
             /\ commitPc' = "returned"
             /\ UNCHANGED <<commitError, workingDiff>>
        ELSE /\ CommitThrows("commit")
             /\ UNCHANGED <<repoVars, history>>
    /\ UNCHANGED <<commitMessage, statusRead, repoAtCall>>
    /\ UNCHANGED <<cmdPc, cmdOptions, cmdReport, cmdExit>>
    /\ UNCHANGED <<coreVars, hookVars, configFile, setupVars, cfgVars>>

\* gac commit -m <message>: spinner.start, then
\* await gitAutoCommit.commit(options.message, {addAll, push}), which
\* throws; the catch block fails the spinner and exits with status 1
CommitWithMessage ==
    /\ cmdPc = "start"
    /\ cmdOptions.message # ""
    /\ CallThrows("commit")
    /\ cmdReport' = "failed: gitAutoCommit.commit is not a function"
    /\ cmdExit' = 1
    /\ cmdPc' = "done"
    /\ UNCHANGED <<commitPc, commitMessage, statusRead, repoAtCall, gitOps,
                   commitError, history, cmdOptions>>
    /\ UNCHANGED <<coreVars, repoVars, hookVars, configFile, setupVars,
                   cfgVars>>

\* gac commit without -m: interactiveCommit(). After initializeAI and
\* generateMultipleOptions(3) the user cancels, or picks or types a message
\* and confirms it or not; a confirmed message goes to commitChanges
CommitInteractively ==
    /\ cmdPc = "start"
    /\ cmdOptions.message = ""
    /\ \E answer \in {"none", "cancel", "message"},
          m \in CommitMessages, confirm \in BOOLEAN :
        IF answer = "message" /\ confirm
        THEN /\ commitMessage' = m
             /\ commitPc' = "status"
             /\ cmdPc' = "committing"
             /\ UNCHANGED <<cmdReport, cmdExit>>
        ELSE /\ cmdReport' = IF answer = "none" THEN NoReport ELSE "cancelled"
             /\ cmdExit' = 0
             /\ cmdPc' = "done"
             /\ UNCHANGED <<commitMessage, commitPc>>
    /\ UNCHANGED <<statusRead, repoAtCall, gitOps, commitError, history,
                   cmdOptions>>
    /\ UNCHANGED <<coreVars, repoVars, hookVars, configFile, setupVars,
                   cfgVars>>

\* try { await commitChanges(commitMessage); spinner.succeed(...) }
\* catch (error) { spinner.fail(...) }
CommitReported ==
    /\ cmdPc = "committing"
    /\ commitPc \in {"returned", "threw"}
    /\ cmdReport' = IF commitPc = "returned" THEN "committed"
                    ELSE "failed: " \o commitError
    /\ cmdExit' = 0
    /\ cmdPc' = "done"
    /\ UNCHANGED <<commitPc, commitMessage, statusRead, repoAtCall, gitOps,
                   commitError, history, cmdOptions>>
    /\ UNCHANGED <<coreVars, repoVars, hookVars, configFile, setupVars,
                   cfgVars>>

-----------------------------------------------------------------------------
(* GitHooks: installing and uninstalling the prepare-commit-msg hook *)

\* 'Git Auto Commit Message Hook', the text both operations look for
HookMarker ==
    <<"G", "i", "t", " ", "A", "u", "t", "o", " ", "C", "o", "m", "m", "i",
      "t", " ", "M", "e", "s", "s", "a", "g", "e", " ", "H", "o", "o", "k">>

\* generateHookScript(): the script, of which the model keeps the first
\* three lines ('#!/bin/sh', '#', '# Git Auto Commit Message Hook')
HookScript ==
    <<"#", "!", "/", "b", "i", "n", "/", "s", "h", NL, "#", NL, "#", " ">>
        \o HookMarker \o <<NL>>

NoFile == [exists |-> FALSE, content |-> <<>>]
File(content) == [exists |-> TRUE, content |-> content]

\* hooks of other origin: two scripts, a blank file, and the tool's script
\* with a line added by hand
ForeignA == <<"a">>
ForeignB == <<"b">>
BlankHook == <<NL>>
EditedScript == HookScript \o <<"x">>
EditedContents == {ForeignA, ForeignB, BlankHook, EditedScript}

\* hookContent.includes('Git Auto Commit Message Hook')
IsOurHook(content) == Includes(content, HookMarker)

\* the backup file whose name sorts last: the names differ in the stamp
\* of Date.now(), 13 digits each, so the order of names is that of stamps
LatestBackup(bks) == CHOOSE b \in bks : \A o \in bks : o.stamp <= b.stamp

Outcome(hook, bks, returned) ==
    [hook |-> hook, backups |-> bks, returned |-> returned]

\* installHook(), in a directory with (repo) or without .git, at time now
installHook(hook, bks, now, repo) ==
    LET existingHook == IF hook.exists THEN hook.content ELSE <<>>
    IN  IF ~repo THEN Outcome(hook, bks, FALSE)
        ELSE IF IsOurHook(existingHook) THEN Outcome(hook, bks, TRUE)
        ELSE Outcome(File(HookScript),
                     IF Trim(existingHook) # <<>>
                     THEN bks \cup {[stamp |-> now, content |-> existingHook]}
                     ELSE bks,
                     TRUE)

\* an uninstallHook that removes whatever hook it finds
UninstallAnyHook(hook, bks) ==
    IF ~hook.exists THEN Outcome(hook, bks, TRUE)
    ELSE IF bks # {}
    THEN Outcome(File(LatestBackup(bks).content),
                 bks \ {LatestBackup(bks)}, TRUE)
    ELSE Outcome(NoFile, bks, TRUE)

\* uninstallHook()
uninstallHook(hook, bks) ==
    IF ~hook.exists THEN Outcome(hook, bks, TRUE)
    ELSE IF ~IsOurHook(hook.content) THEN Outcome(hook, bks, FALSE)
    ELSE IF bks # {}
    THEN Outcome(File(LatestBackup(bks).content),
                 bks \ {LatestBackup(bks)}, TRUE)
    ELSE Outcome(NoFile, bks, TRUE)

\* the number of operations on the hooks directory in one run
MaxHookOps == 4

\* one operation of the run: what it found and what it returned
Step(op, returned) ==
    [op |-> op, hook |-> hookFile, backups |-> backups, returned |-> returned]

HooksIdle ==
    /\ gitDir = FALSE
    /\ hookFile = NoFile
    /\ backups = {}
    /\ clock = 0
    /\ hookTrail = <<>>

\* a working directory before the tool is first used on it
HooksInit ==
    /\ gitDir \in BOOLEAN
    /\ hookFile \in IF gitDir THEN {NoFile, File(ForeignA), File(BlankHook)}
                    ELSE {NoFile}
    /\ backups = {}
    /\ clock = 1
    /\ hookTrail = <<>>

\* gac hook install
InstallHook ==
    /\ Len(hookTrail) < MaxHookOps
    /\ LET out == installHook(hookFile, backups, clock, gitDir)
       IN  /\ hookFile' = out.hook
           /\ backups' = out.backups
           /\ hookTrail' = Append(hookTrail, Step("install", out.returned))
    /\ clock' = clock + 1
    /\ UNCHANGED gitDir
    /\ UNCHANGED <<coreVars, repoVars, commitVars, configFile, setupVars,
                   cfgVars>>

\* gac hook uninstall
UninstallHook ==
    /\ Len(hookTrail) < MaxHookOps
    /\ LET out == uninstallHook(hookFile, backups)
       IN  /\ hookFile' = out.hook
           /\ backups' = out.backups
           /\ hookTrail' = Append(hookTrail, Step("uninstall", out.returned))
    /\ clock' = clock + 1
    /\ UNCHANGED gitDir
    /\ UNCHANGED <<coreVars, repoVars, commitVars, configFile, setupVars,
                   cfgVars>>

\* the user writes another hook file, or deletes the hook file
EditHook ==
    /\ Len(hookTrail) < MaxHookOps
    /\ gitDir
    /\ \E file \in {NoFile} \cup {File(c) : c \in EditedContents} :
        /\ file # hookFile
        /\ hookFile' = file
    /\ hookTrail' = Append(hookTrail, Step("edit", TRUE))
    /\ clock' = clock + 1
    /\ UNCHANGED <<gitDir, backups>>
    /\ UNCHANGED <<coreVars, repoVars, commitVars, configFile, setupVars,
                   cfgVars>>

-----------------------------------------------------------------------------
(* ConfigManager: the persisted configuration *)

ConfigKeys ==
    { "aiProvider", "openaiApiKey", "dashscopeApiKey", "model", "language",
      "style", "maxTokens", "temperature" }

\* this.defaultConfig (the key built into the source is abbreviated;
\* temperature in tenths)
defaultConfig ==
    [ aiProvider      |-> "dashscope",
      openaiApiKey    |-> "",
      dashscopeApiKey |-> "sk-builtin",
      model           |-> "qwen-turbo",
      language        |-> "zh-CN",
      style           |-> "conventional",
      maxTokens       |-> DefaultMaxTokens,
      temperature     |-> DefaultTemperature ]

\* ~/.git-auto-commit/config.json. A file that holds some of the keys reads
\* as the defaults overridden by them; values is that merged record
NoConfigFile == [exists |-> FALSE, values |-> defaultConfig]
Stored(values) == [exists |-> TRUE, values |-> values]

\* getConfig(): { ...defaultConfig, ...config }, the defaults when the file
\* cannot be read
getConfig(file) == IF file.exists THEN file.values ELSE defaultConfig

\* saveConfig(config): { ...currentConfig, ...config } is written
saveConfig(file, patch) ==
    Stored([k \in ConfigKeys |->
                IF k \in DOMAIN patch THEN patch[k] ELSE getConfig(file)[k]])

\* a check that takes every configuration for complete
AlwaysConfigured(cfg) == TRUE

\* isConfigured(): a truthy key for the selected provider
isConfigured(cfg) ==
    IF cfg.aiProvider = "openai" THEN cfg.openaiApiKey # ""
    ELSE IF cfg.aiProvider = "dashscope" THEN cfg.dashscopeApiKey # ""
    ELSE FALSE

\* what the generator reads of the configuration it is built from
GeneratorConfig(cfg) ==
    [ aiProvider  |-> cfg.aiProvider,
      model       |-> cfg.model,
      style       |-> cfg.style,
      maxTokens   |-> cfg.maxTokens,
      temperature |-> cfg.temperature ]

\* configuration files: none, one with the built-in key cleared, OpenAI
\* selected without and with a key, and an unknown provider
ConfigFiles ==
    { NoConfigFile,
      Stored([defaultConfig EXCEPT !.dashscopeApiKey = ""]),
      Stored([defaultConfig EXCEPT !.aiProvider = "openai"]),
      Stored([defaultConfig EXCEPT !.aiProvider = "openai",
                                   !.openaiApiKey = "sk-o",
                                   !.style = "free"]),
      Stored([defaultConfig EXCEPT !.aiProvider = "other"]) }

\* the answers interactiveConfig() saves: the provider, a non-blank key for
\* it (the other key is not asked), and the general settings
WizardAnswers ==
    { [ aiProvider |-> "dashscope", dashscopeApiKey |-> "sk-d",
        model |-> "qwen-plus", language |-> "zh-CN", style |-> "conventional",
        maxTokens |-> DefaultMaxTokens, temperature |-> DefaultTemperature ],
      [ aiProvider |-> "openai", openaiApiKey |-> "sk-o",
        model |-> "gpt-4", language |-> "en", style |-> "free",
        maxTokens |-> DefaultMaxTokens, temperature |-> DefaultTemperature ] }

-----------------------------------------------------------------------------
(* GitAutoCommit.initializeAI, and generate --hook of the command line *)

NoGenerator == [built |-> FALSE, config |-> defaultConfig]
Generator(cfg) == [built |-> TRUE, config |-> cfg]

NoProbe == [done |-> FALSE, config |-> defaultConfig, valid |-> FALSE]
Probe(cfg, valid) == [done |-> TRUE, config |-> cfg, valid |-> valid]

NotConfigured == "not configured"
InvalidKey == "invalid key or no connection"

\* the number of times one run goes through the configuration dialog
MaxReconfigurations == 2

SetupIdle ==
    /\ configFile = NoConfigFile
    /\ sPc = "idle"
    /\ aiGenerator = NoGenerator
    /\ lastProbe = NoProbe
    /\ prompts = 0
    /\ stdout = <<>>
    /\ sError = ""
    /\ exitStatus = NotExited
    /\ dialogs = 0

\* const config = await getConfig(); if (!await isConfigured()) ...
\* else this.aiGenerator = new AICommitGenerator(config), whose
\* validateApiKey() sends the probe
CheckConfigured ==
    /\ sPc = "start"
    /\ IF ~isConfigured(getConfig(configFile))
       THEN /\ IF ~silent
               THEN /\ stdout' = Append(stdout, "configuration incomplete")
                    /\ prompts' = prompts + 1
                    /\ sPc' = "configuring"
                    /\ UNCHANGED sError
               ELSE /\ sError' = NotConfigured
                    /\ sPc' = "threw"
                    /\ UNCHANGED <<stdout, prompts>>
            /\ UNCHANGED <<aiGenerator, config>>
       ELSE /\ aiGenerator' = Generator(getConfig(configFile))
            /\ config' = GeneratorConfig(getConfig(configFile))
            /\ sPc' = "probing"
            /\ UNCHANGED <<stdout, prompts, sError>>
    /\ UNCHANGED <<configFile, lastProbe, exitStatus, dialogs>>
    /\ UNCHANGED <<gPc, request, response, gResult, formatCalls>>
    /\ UNCHANGED <<fmtVars, repoVars, clsVars, multiVars, orchVars, truncVars>>
    /\ UNCHANGED <<commitVars, hookVars, cfgVars>>

\* interactiveConfig(): the user answers, the answers are saved, and
\* initializeAI() starts again (return this.initializeAI())
Reconfigure ==
    /\ sPc = "configuring"
    /\ dialogs < MaxReconfigurations
    /\ \E answers \in WizardAnswers :
        configFile' = saveConfig(configFile, answers)
    /\ stdout' = Append(stdout, "configuration saved")
    /\ dialogs' = dialogs + 1
    /\ sPc' = "start"
    /\ UNCHANGED <<aiGenerator, lastProbe, prompts, sError, exitStatus>>
    /\ UNCHANGED <<coreVars, repoVars, commitVars, hookVars, cfgVars>>

\* const isValid = await this.aiGenerator.validateApiKey(), and what
\* follows it in either mode
ProbeAnswered ==
    /\ sPc = "probing"
    /\ \E resp \in ProbeAnswers, reconfigure \in BOOLEAN :
        LET isValid ==
                validateApiKey(aiGenerator.config.aiProvider, resp).value
        IN  /\ lastProbe' = Probe(aiGenerator.config, isValid)
            /\ IF isValid
               THEN /\ sPc' = "returned"
                    /\ stdout' = IF silent THEN stdout
                                 ELSE Append(stdout, "configuration verified")
                    /\ UNCHANGED <<prompts, sError, exitStatus>>
               ELSE IF silent
               THEN /\ sError' = InvalidKey
                    /\ sPc' = "threw"
                    /\ UNCHANGED <<stdout, prompts, exitStatus>>
               ELSE /\ stdout' = Append(stdout, InvalidKey)
                    /\ prompts' = prompts + 1 + (IF reconfigure THEN 1 ELSE 0)
                    /\ sPc' = IF reconfigure THEN "configuring" ELSE "exited"
                    /\ exitStatus' = IF reconfigure THEN exitStatus ELSE 1
                    /\ UNCHANGED sError
    /\ UNCHANGED <<configFile, aiGenerator, dialogs>>
    /\ UNCHANGED <<coreVars, repoVars, commitVars, hookVars, cfgVars>>

\* generate --hook: once initializeAI() has returned,
\* silentGitAutoCommit.generateCommitMessage() is called
GenerateInHook ==
    /\ sPc = "returned"
    /\ oPc = "idle"
    /\ oPc' = "start"
    /\ UNCHANGED <<isRepo, commitCount, silent, diff, recentCommits,
                   oFailure, oResult, printed, entry, gitCalls>>
    /\ UNCHANGED <<fmtVars, repoVars, clsVars, genVars, multiVars, truncVars>>
    /\ UNCHANGED cliVars

\* generate --hook: if (message) { console.log(message); process.exit(0) }
\* else process.exit(1); an error of either call is caught: process.exit(1)
ExitHook ==
    /\ exitStatus = NotExited
    /\ \/ /\ sPc = "threw"
          /\ exitStatus' = 1
          /\ UNCHANGED stdout
       \/ /\ sPc = "returned"
          /\ oPc = "done"
          /\ IF oResult.kind = "message" /\ oResult.value # <<>>
             THEN /\ stdout' = Append(stdout, oResult.value)
                  /\ exitStatus' = 0
             ELSE /\ exitStatus' = 1
                  /\ UNCHANGED stdout
    /\ sPc' = "exited"
    /\ UNCHANGED <<configFile, aiGenerator, lastProbe, prompts, sError,
                   dialogs>>
    /\ UNCHANGED <<coreVars, repoVars, commitVars, hookVars, cfgVars>>

-----------------------------------------------------------------------------
(* The config command of the command line *)

\* the options of the command; a --set-* value is "" when not given
ConfigOptions ==
    [ interactive     : BOOLEAN,
      show            : BOOLEAN,
      reset           : BOOLEAN,
      setDashscopeKey : {"", "sk-new"},
      setModel        : {"", "qwen-max"},
      setLanguage     : {"", "en", "fr"},
      setStyle        : {"", "free", "fancy"} ]

NoConfigOptions ==
    [interactive |-> FALSE, show |-> FALSE, reset |-> FALSE,
     setDashscopeKey |-> "", setModel |-> "", setLanguage |-> "",
     setStyle |-> ""]

\* the four --set-* blocks of the action, in their order: each saves its
\* value, the last two after validating it; an invalid value ends the
\* command (return) with whatever was saved before it
AfterKey(file, options) ==
    IF options.setDashscopeKey # ""
    THEN saveConfig(saveConfig(file, [aiProvider |-> "dashscope"]),
                    [dashscopeApiKey |-> options.setDashscopeKey])
    ELSE file

AfterModel(file, options) ==
    IF options.setModel # ""
    THEN saveConfig(AfterKey(file, options), [model |-> options.setModel])
    ELSE AfterKey(file, options)

LanguageRejected(options) ==
    options.setLanguage # "" /\ options.setLanguage \notin {"zh-CN", "en"}

StyleRejected(options) ==
    /\ ~LanguageRejected(options)
    /\ options.setStyle # ""
    /\ options.setStyle \notin {"conventional", "free"}

AfterLanguage(file, options) ==
    IF options.setLanguage # "" /\ ~LanguageRejected(options)
    THEN saveConfig(AfterModel(file, options),
                    [language |-> options.setLanguage])
    ELSE AfterModel(file, options)

SetOptions(file, options) ==
    IF LanguageRejected(options) THEN AfterModel(file, options)
    ELSE IF StyleRejected(options) THEN AfterLanguage(file, options)
    ELSE IF options.setStyle # ""
    THEN saveConfig(AfterLanguage(file, options), [style |-> options.setStyle])
    ELSE AfterLanguage(file, options)

\* the --set-* options are reached: none of -i, -s, -r is given
SetsOptions(options) ==
    ~options.interactive /\ ~options.show /\ ~options.reset

\* the configuration file the command leaves; answers are those of the
\* dialog of --interactive
configCommand(file, options, answers) ==
    IF options.interactive THEN saveConfig(file, answers)
    ELSE IF options.show THEN file
    ELSE IF options.reset THEN saveConfig(file, defaultConfig)
    ELSE SetOptions(file, options)

\* what the command reports last
configReport(options) ==
    IF options.interactive THEN "configuration saved"
    ELSE IF options.show THEN "shown"
    ELSE IF options.reset THEN "reset"
    ELSE IF LanguageRejected(options) THEN "invalid language"
    ELSE IF StyleRejected(options) THEN "invalid style"
    ELSE IF options.setDashscopeKey = "" /\ options.setModel = ""
            /\ options.setLanguage = "" /\ options.setStyle = ""
    THEN "no option given"
    ELSE "set"

CfgIdle ==
    /\ cfgPc = "idle"
    /\ cfgOptions = NoConfigOptions
    /\ fileAtStart = NoConfigFile
    /\ cfgOut = ""

\* gac config [options]
ConfigCommand ==
    /\ cfgPc = "start"
    /\ \E answers \in WizardAnswers :
        configFile' = configCommand(configFile, cfgOptions, answers)
    /\ fileAtStart' = configFile
    /\ cfgOut' = configReport(cfgOptions)
    /\ cfgPc' = "done"
    /\ UNCHANGED cfgOptions
    /\ UNCHANGED <<coreVars, repoVars, commitVars, hookVars, setupVars>>

CliIdle == CommitIdle /\ HooksIdle /\ SetupIdle /\ CfgIdle

-----------------------------------------------------------------------------
(* The orchestrator: GitAutoCommit.generateCommitMessage, after
   initializeAI has built this.aiGenerator from the configuration *)

\* getRecentCommits(5)
HistoryLimit == 5

\* a getDiff that takes the staged diff whenever it is not empty
StagedUnlessEmpty(staged, working) ==
    IF staged # <<>> THEN staged ELSE working

\* getDiff(): the staged diff if it is non-blank, else the working diff
getDiff(staged, working) ==
    IF staged # <<>> /\ Trim(staged) # <<>> THEN staged ELSE working

\* whether a git call can succeed / fail here: every call fails outside a
\* repository, git log fails on a branch without commits, and any call
\* may fail with an I/O error
GitOutcomes(needsCommits) ==
    IF ~isRepo \/ (needsCommits /\ commitCount = 0) THEN {"fail"}
    ELSE {"ok", "fail"}

Line(stream, text) == [stream |-> stream, text |-> text]

\* console output that takes no notice of this.silent
SayAlways(out, line) == Append(out, line)

\* console output: generateCommitMessage prints unless this.silent,
\* generateMultipleOptions prints always
Say(out, line) ==
    IF entry = "one" /\ silent THEN out ELSE Append(out, line)

NoResult == [kind |-> "none", value |-> <<>>]
Null == [kind |-> "null", value |-> <<>>]
Message(m) == [kind |-> "message", value |-> m]
Options(ms) == [kind |-> "options", value |-> ms]

\* what the run returns when there is nothing to do or its catch block
\* runs: null from generateCommitMessage, [] from generateMultipleOptions
Nothing == IF entry = "one" THEN Null ELSE Options(<<>>)

\* repository states with at most one changed path
OrchRepoStates ==
    {r \in RepoStates : Cardinality({p \in Paths : r[p] # ""}) <= 1}

OrchResponses ==
    { Reply(<<Choice(<<"a">>)>>),
      Reply(<<Choice(<<" ">>)>>),
      Reply(<<>>),
      ApiError("invalid_credentials", "denied"),
      NetworkError("timeout") }

OrchIdle ==
    /\ isRepo = FALSE
    /\ commitCount = 0
    /\ silent = FALSE
    /\ oPc = "idle"
    /\ diff = <<>>
    /\ recentCommits = 0
    /\ oFailure = ""
    /\ oResult = NoResult
    /\ printed = <<>>
    /\ entry = "one"
    /\ gitCalls = <<>>

\* a run of generateCommitMessage
OrchInit ==
    /\ repoStatus \in OrchRepoStates
    /\ stagedDiff \in SampleDiffs
    /\ workingDiff \in SampleDiffs
    /\ isRepo \in BOOLEAN
    /\ commitCount \in {0, 2, HistoryLimit + 1}
    /\ silent \in BOOLEAN
    /\ config \in MultiConfigs
    /\ oPc = "start"
    /\ diff = <<>>
    /\ recentCommits = 0
    /\ oFailure = ""
    /\ oResult = NoResult
    /\ printed = <<>>
    /\ entry = "one"
    /\ gitCalls = <<>>

\* the catch block: console.error (unless silent, in generateCommitMessage),
\* then return null / []
CatchAndReturnNull(failed) ==
    /\ oFailure' = failed
    /\ oResult' = Nothing
    /\ printed' = Say(printed, Line("stderr", "generation failed"))
    /\ oPc' = "done"

\* if (!await this.gitAnalyzer.isGitRepo()) return null / []
\* isGitRepo() answers false when git.status() throws
CheckRepo ==
    /\ oPc = "start"
    /\ gitCalls' = Append(gitCalls, "isGitRepo")
    /\ \E outcome \in GitOutcomes(FALSE) :
        IF outcome = "ok"
        THEN /\ oPc' = "checkChanges"
             /\ UNCHANGED <<oFailure, oResult, printed>>
        ELSE /\ oFailure' = IF isRepo THEN "status" ELSE ""
             /\ oResult' = Nothing
             /\ printed' = Say(printed, Line("stdout", "not a git repository"))
             /\ oPc' = "done"
    /\ UNCHANGED <<isRepo, commitCount, silent, diff, recentCommits, entry>>
    /\ UNCHANGED <<fmtVars, repoVars, clsVars, genVars, multiVars, truncVars,
                   cliVars>>

\* const hasChanges = await this.gitAnalyzer.hasChanges();
\* if (!hasChanges) return null / [];  then the spinner starts
\* hasChanges() answers false when git.status() throws
CheckChanges ==
    /\ oPc = "checkChanges"
    /\ gitCalls' = Append(gitCalls, "hasChanges")
    /\ \E outcome \in GitOutcomes(FALSE) :
        /\ hasChangesResult' =
              (outcome = "ok" /\ hasChanges(GitStatus(repoStatus)))
        /\ oFailure' = IF outcome = "fail" /\ isRepo THEN "status" ELSE ""
    /\ IF hasChangesResult'
       THEN /\ oPc' = "getDiff"
            /\ printed' = Say(printed, Line("stderr", "spinner: analysing"))
            /\ UNCHANGED oResult
       ELSE /\ oResult' = Nothing
            /\ printed' = Say(printed, Line("stdout", "no changes detected"))
            /\ oPc' = "done"
    /\ UNCHANGED <<isRepo, commitCount, silent, diff, recentCommits, entry>>
    /\ UNCHANGED <<cPc, analysis>>
    /\ UNCHANGED <<fmtVars, repoVars, genVars, multiVars, truncVars,
                   cliVars>>

\* const diff = await this.gitAnalyzer.getDiff()
ReadDiff ==
    /\ oPc = "getDiff"
    /\ gitCalls' = Append(gitCalls, "getDiff")
    /\ \E outcome \in GitOutcomes(FALSE) :
        IF outcome = "ok"
        THEN /\ diff' = getDiff(stagedDiff, workingDiff)
             /\ oPc' = "analyze"
             /\ UNCHANGED <<oFailure, oResult, printed>>
        ELSE /\ CatchAndReturnNull("diff")
             /\ UNCHANGED diff
    /\ UNCHANGED <<isRepo, commitCount, silent, recentCommits, entry>>
    /\ UNCHANGED <<fmtVars, repoVars, clsVars, genVars, multiVars, truncVars,
                   cliVars>>

\* const analysis = await this.gitAnalyzer.analyzeChanges()
Analyze ==
    /\ oPc = "analyze"
    /\ gitCalls' = Append(gitCalls, "analyzeChanges")
    /\ \E outcome \in GitOutcomes(FALSE) :
        IF outcome = "ok"
        THEN /\ analysis' =
                  analyzeChanges(getChangedFiles(GitStatus(repoStatus)),
                                 DiffForStats(stagedDiff, workingDiff))
             /\ cPc' = "analyzed"
             /\ oPc' = "getCommits"
             /\ UNCHANGED <<oFailure, oResult, printed>>
        ELSE /\ CatchAndReturnNull("status")
             /\ UNCHANGED <<analysis, cPc>>
    /\ UNCHANGED <<isRepo, commitCount, silent, diff, recentCommits, entry>>
    /\ UNCHANGED hasChangesResult
    /\ UNCHANGED <<fmtVars, repoVars, genVars, multiVars, truncVars,
                   cliVars>>

\* const recentCommits = await this.gitAnalyzer.getRecentCommits(5);
\* then generateCommitMessage sends the request of
\* aiGenerator.generateCommitMessage, and generateMultipleOptions starts
\* the count calls of aiGenerator.generateMultipleOptions
ReadCommits ==
    /\ oPc = "getCommits"
    /\ gitCalls' = Append(gitCalls, "getRecentCommits")
    /\ \E outcome \in GitOutcomes(TRUE) :
        IF outcome = "ok"
        THEN /\ recentCommits' = IF commitCount < HistoryLimit
                                 THEN commitCount ELSE HistoryLimit
             /\ IF entry = "one"
                THEN /\ request' = BuildRequest(config)
                     /\ gPc' = "awaiting"
                     /\ UNCHANGED multiVars
                ELSE /\ LaunchCalls
                     /\ UNCHANGED <<request, gPc>>
             /\ printed' = Say(printed, Line("stderr", "spinner: generating"))
             /\ oPc' = "awaitBackend"
             /\ UNCHANGED <<oFailure, oResult>>
        ELSE /\ CatchAndReturnNull("log")
             /\ UNCHANGED <<recentCommits, request, gPc>>
             /\ UNCHANGED multiVars
    /\ UNCHANGED <<isRepo, commitCount, silent, diff, entry>>
    /\ UNCHANGED <<config, response, gResult, formatCalls>>
    /\ UNCHANGED <<fmtVars, repoVars, clsVars, truncVars,
                   cliVars>>

\* the provider answers; generateCommitMessage returns the message, or its
\* catch block turns the backend's error into null
BackendAnswers ==
    /\ oPc = "awaitBackend"
    /\ entry = "one"
    /\ \E resp \in OrchResponses :
        /\ response' = resp
        /\ gResult' = HandleResponse(config.aiProvider, resp, analysis,
                          EffectiveStyle(config.aiProvider, config.style))
    /\ formatCalls' = formatCalls + (IF gResult'.formatted THEN 1 ELSE 0)
    /\ gPc' = "done"
    /\ IF gResult'.status = "fulfilled"
       THEN /\ oResult' = Message(gResult'.value)
            /\ printed' = Say(printed, Line("stderr", "spinner: succeeded"))
            /\ oPc' = "done"
            /\ UNCHANGED oFailure
       ELSE CatchAndReturnNull("backend")
    /\ UNCHANGED <<isRepo, commitCount, silent, diff, recentCommits, entry,
                   gitCalls>>
    /\ UNCHANGED <<config, request>>
    /\ UNCHANGED <<fmtVars, repoVars, clsVars, multiVars, truncVars,
                   cliVars>>

\* the provider answers call i of aiGenerator.generateMultipleOptions; when
\* that settles its Promise.all, generateMultipleOptions of the
\* orchestrator resumes: it returns the options, or its catch block turns
\* the error into []
OptionAnswers(i) ==
    /\ entry = "multiple"
    /\ CompleteCall(i)
    /\ IF oPc = "awaitBackend" /\ mPc' = "returned"
       THEN /\ oResult' = Options(mResults')
            /\ printed' = Say(printed, Line("stderr", "spinner: succeeded"))
            /\ oPc' = "done"
            /\ UNCHANGED oFailure
       ELSE IF oPc = "awaitBackend" /\ mPc' = "threw"
            THEN CatchAndReturnNull("backend")
            ELSE UNCHANGED <<oPc, oResult, oFailure, printed>>
    /\ UNCHANGED <<isRepo, commitCount, silent, diff, recentCommits, entry,
                   gitCalls>>
    /\ UNCHANGED <<fmtVars, repoVars, clsVars, genVars, truncVars,
                   cliVars>>

OrchestratorInit ==
    /\ OrchInit
    /\ TruncIdle /\ CliIdle
    /\ FmtIdle
    /\ MultiIdle
    /\ ClsIdle
    /\ gPc = "idle"
    /\ request = NoRequest
    /\ response = NoResponse
    /\ gResult = Pending
    /\ formatCalls = 0

OrchestratorNext ==
    \/ CheckRepo
    \/ CheckChanges
    \/ ReadDiff
    \/ Analyze
    \/ ReadCommits
    \/ BackendAnswers

Spec == OrchestratorInit /\ [][OrchestratorNext]_vars

\* the number of options asked of generateMultipleOptions
MaxOptions == 2

\* the repository states of the entry points: clean, one modified file, or
\* one untracked file
EntryRepoStates ==
    {r \in OrchRepoStates : \A p \in Paths : r[p] \in {"", " M", "??"}}

\* a run of either entry point of GitAutoCommit
EntryInit ==
    /\ repoStatus \in EntryRepoStates
    /\ stagedDiff = <<>>
    /\ workingDiff \in SampleDiffs
    /\ isRepo \in BOOLEAN
    /\ commitCount \in {0, 2}
    /\ silent \in BOOLEAN
    /\ config \in MultiConfigs
    /\ entry \in {"one", "multiple"}
    /\ oPc = "start"
    /\ diff = <<>>
    /\ recentCommits = 0
    /\ oFailure = ""
    /\ oResult = NoResult
    /\ printed = <<>>
    /\ gitCalls = <<>>
    /\ TruncIdle /\ CliIdle
    /\ FmtIdle
    /\ ClsIdle
    /\ gPc = "idle"
    /\ request = NoRequest
    /\ response = NoResponse
    /\ gResult = Pending
    /\ formatCalls = 0
    /\ count \in IF entry = "one" THEN {0} ELSE 1..MaxOptions
    /\ mPc = IF entry = "one" THEN "idle" ELSE "ready"
    /\ promises = <<>>
    /\ replies = <<>>
    /\ requestsSent = <<>>
    /\ completionOrder = <<>>
    /\ mResults = <<>>
    /\ mError = NoMultiError

EntryNext ==
    \/ CheckRepo
    \/ CheckChanges
    \/ ReadDiff
    \/ Analyze
    \/ ReadCommits
    \/ BackendAnswers
    \/ \E i \in 1..MaxOptions : i <= count /\ OptionAnswers(i)

SpecEntry == EntryInit /\ [][EntryNext]_vars


MultipleInit == MultiInit /\ FmtIdle /\ RepoIdle /\ OrchIdle /\ TruncIdle /\ CliIdle

MultipleNext == LaunchAll \/ \E i \in 1..MaxCount : i <= count /\ Complete(i)

SpecMultiple == MultipleInit /\ [][MultipleNext]_vars

GenerateInit ==
    GenInit /\ FmtIdle /\ RepoIdle /\ MultiIdle /\ OrchIdle /\ TruncIdle /\ CliIdle

GenerateNext == SendRequest \/ ReceiveResponse

SpecGenerate == GenerateInit /\ [][GenerateNext]_vars


ClassifyInit ==
    ClsInit /\ FmtIdle /\ GenIdle /\ MultiIdle /\ OrchIdle /\ TruncIdle /\ CliIdle

ClassifyNext == Classify

SpecClassify == ClassifyInit /\ [][ClassifyNext]_vars

FormatInit ==
    /\ FmtInit /\ RepoIdle /\ ClsIdle /\ GenIdle /\ MultiIdle /\ OrchIdle
    /\ TruncIdle /\ CliIdle

FormatNext == FormatReply \/ FormatAgain

SpecFormat == FormatInit /\ [][FormatNext]_vars

\* how many paths of a repository state have changed, and how many lines
\* its diff has (or 10 lines, or none)
MaxChanged == 3
MaxDiffLines == 2

AnalyzeCodes == {"", " M", "A ", " D"}
AnalyzePaths == {pProto, pConfig, pDocs, pMain, pSrcAJs, pTest}

AnalyzeRepoStates ==
    {r \in [AnalyzePaths -> AnalyzeCodes] :
        Cardinality({p \in AnalyzePaths : r[p] # ""}) <= MaxChanged}

AnalyzeDiffs ==
    {DiffOfLines(kind, n, nl) :
        kind \in {"added", "removed", "mixed", "header"},
        n \in (0..MaxDiffLines) \cup {10},
        nl \in BOOLEAN}

\* analyzeChanges() on a repository state and its diffs
AnalyzeInit ==
    /\ repoStatus \in AnalyzeRepoStates
    /\ stagedDiff \in AnalyzeDiffs
    /\ workingDiff \in {<<>>, <<"-", "w">>}
    /\ cPc = "ready"
    /\ hasChangesResult = FALSE
    /\ analysis = NoAnalysis
    /\ FmtIdle /\ GenIdle /\ MultiIdle /\ OrchIdle /\ TruncIdle /\ CliIdle

AnalyzeNext == Classify

SpecAnalyze == AnalyzeInit /\ [][AnalyzeNext]_vars

\* the diff texts of the reads: empty, blank, and two with changes
ReadDiffs ==
    { <<>>,
      <<" ", NL>>,
      <<"+", "a">>,
      <<"-", "b", NL, "+", "c">> }

\* a run of generateCommitMessage in a repository with one modified file
DiffReadInit ==
    /\ repoStatus = [p \in Paths |-> IF p = pSrcA THEN " M" ELSE ""]
    /\ stagedDiff \in ReadDiffs
    /\ workingDiff \in ReadDiffs
    /\ isRepo = TRUE
    /\ commitCount = 2
    /\ silent \in BOOLEAN
    /\ config \in MultiConfigs
    /\ entry = "one"
    /\ oPc = "start"
    /\ diff = <<>>
    /\ recentCommits = 0
    /\ oFailure = ""
    /\ oResult = NoResult
    /\ printed = <<>>
    /\ gitCalls = <<>>
    /\ gPc = "idle"
    /\ request = NoRequest
    /\ response = NoResponse
    /\ gResult = Pending
    /\ formatCalls = 0
    /\ FmtIdle /\ ClsIdle /\ MultiIdle /\ TruncIdle /\ CliIdle

DiffReadNext == OrchestratorNext

SpecDiffRead == DiffReadInit /\ [][DiffReadNext]_vars

\* another process edits or stages files between the reads of one run: the
\* next git diff calls answer with other texts (the file stays changed)
RepositoryEdited ==
    /\ oPc = "analyze"
    /\ \E staged \in ReadDiffs, working \in ReadDiffs :
        /\ <<staged, working>> # <<stagedDiff, workingDiff>>
        /\ stagedDiff' = staged
        /\ workingDiff' = working
    /\ UNCHANGED repoStatus
    /\ UNCHANGED <<coreVars, cliVars>>

\* a run of generateCommitMessage while the repository is being worked on
DiffRaceInit == DiffReadInit

DiffRaceNext == OrchestratorNext \/ RepositoryEdited

SpecDiffRace == DiffRaceInit /\ [][DiffRaceNext]_vars


ValidateInit ==
    ProbeInit /\ FmtIdle /\ RepoIdle /\ MultiIdle /\ OrchIdle /\ TruncIdle /\ CliIdle

ValidateNext == SendProbe \/ ReceiveProbeAnswer

SpecValidate == ValidateInit /\ [][ValidateNext]_vars

TruncateInit ==
    /\ TruncInit /\ FmtIdle /\ RepoIdle /\ ClsIdle /\ GenIdle /\ MultiIdle
    /\ OrchIdle /\ CliIdle

TruncateNext == Truncate

SpecTruncate == TruncateInit /\ [][TruncateNext]_vars

\* repository states with at most two changed paths
CommitRepoStates ==
    {r \in RepoStates : Cardinality({p \in Paths : r[p] # ""}) <= 2}

\* a run of gac commit
CommitInit ==
    /\ repoStatus \in CommitRepoStates
    /\ stagedDiff =
          IF IndexPaths(repoStatus) # {} THEN <<"+", "a">> ELSE <<>>
    /\ workingDiff =
          IF \E p \in Paths : repoStatus[p] \in {" M", " D"}
          THEN <<"-", "b">> ELSE <<>>
    /\ cmdOptions \in CommandOptions
    /\ cmdPc = "start"
    /\ commitPc = "idle"
    /\ commitMessage = ""
    /\ statusRead = NoStatus
    /\ repoAtCall = [p \in Paths |-> ""]
    /\ gitOps = <<>>
    /\ commitError = NoCommitError
    /\ history = <<>>
    /\ cmdReport = NoReport
    /\ cmdExit = NotExited
    /\ FmtIdle /\ ClsIdle /\ GenIdle /\ MultiIdle /\ OrchIdle /\ TruncIdle
    /\ HooksIdle /\ SetupIdle /\ CfgIdle

CommitNext ==
    \/ CommitWithMessage
    \/ CommitInteractively
    \/ CommitStatus
    \/ CommitAdd
    \/ CommitCommit
    \/ CommitReported

SpecCommit == CommitInit /\ [][CommitNext]_vars

\* a run of hook commands, with the user editing the hook in between
HookRunInit ==
    /\ HooksInit
    /\ FmtIdle /\ RepoIdle /\ ClsIdle /\ GenIdle /\ MultiIdle /\ OrchIdle
    /\ TruncIdle /\ CommitIdle /\ SetupIdle /\ CfgIdle

HookRunNext == InstallHook \/ UninstallHook \/ EditHook

SpecHooks == HookRunInit /\ [][HookRunNext]_vars

\* a run of initializeAI(), in either mode
SetupInit ==
    /\ configFile \in ConfigFiles
    /\ silent \in BOOLEAN
    /\ sPc = "start"
    /\ aiGenerator = NoGenerator
    /\ lastProbe = NoProbe
    /\ prompts = 0
    /\ stdout = <<>>
    /\ sError = ""
    /\ exitStatus = NotExited
    /\ dialogs = 0
    /\ isRepo = FALSE
    /\ commitCount = 0
    /\ oPc = "idle"
    /\ diff = <<>>
    /\ recentCommits = 0
    /\ oFailure = ""
    /\ oResult = NoResult
    /\ printed = <<>>
    /\ entry = "one"
    /\ gitCalls = <<>>
    /\ FmtIdle /\ RepoIdle /\ ClsIdle /\ GenIdle /\ MultiIdle /\ TruncIdle
    /\ CommitIdle /\ HooksIdle /\ CfgIdle

SetupNext == CheckConfigured \/ Reconfigure \/ ProbeAnswered

SpecSetup == SetupInit /\ [][SetupNext]_vars

\* a run of gac generate --hook
HookModeInit ==
    /\ configFile \in ConfigFiles
    /\ silent = TRUE
    /\ sPc = "start"
    /\ aiGenerator = NoGenerator
    /\ lastProbe = NoProbe
    /\ prompts = 0
    /\ stdout = <<>>
    /\ sError = ""
    /\ exitStatus = NotExited
    /\ dialogs = 0
    /\ repoStatus \in EntryRepoStates
    /\ stagedDiff = <<>>
    /\ workingDiff \in SampleDiffs
    /\ isRepo \in BOOLEAN
    /\ commitCount \in {0, 2}
    /\ oPc = "idle"
    /\ diff = <<>>
    /\ recentCommits = 0
    /\ oFailure = ""
    /\ oResult = NoResult
    /\ printed = <<>>
    /\ entry = "one"
    /\ gitCalls = <<>>
    /\ FmtIdle /\ ClsIdle /\ GenIdle /\ MultiIdle /\ TruncIdle
    /\ CommitIdle /\ HooksIdle /\ CfgIdle

HookModeNext ==
    \/ CheckConfigured
    \/ ProbeAnswered
    \/ GenerateInHook
    \/ CheckRepo
    \/ CheckChanges
    \/ ReadDiff
    \/ Analyze
    \/ ReadCommits
    \/ BackendAnswers
    \/ ExitHook

SpecHookMode == HookModeInit /\ [][HookModeNext]_vars

\* a run of gac config
ConfigCommandInit ==
    /\ configFile \in ConfigFiles
    /\ cfgOptions \in ConfigOptions
    /\ cfgPc = "start"
    /\ fileAtStart = NoConfigFile
    /\ cfgOut = ""
    /\ sPc = "idle"
    /\ aiGenerator = NoGenerator
    /\ lastProbe = NoProbe
    /\ prompts = 0
    /\ stdout = <<>>
    /\ sError = ""
    /\ exitStatus = NotExited
    /\ dialogs = 0
    /\ FmtIdle /\ RepoIdle /\ ClsIdle /\ GenIdle /\ MultiIdle /\ OrchIdle
    /\ TruncIdle /\ CommitIdle /\ HooksIdle

ConfigCommandNext == ConfigCommand

SpecConfigCommand == ConfigCommandInit /\ [][ConfigCommandNext]_vars

-----------------------------------------------------------------------------
(* C1: format is idempotent: formatting an already formatted reply with the
   same analysis and style gives the same text, for every trimmed reply
   (the empty one included), every type tag, an empty or non-empty scope and
   both styles. *)
C1_FormatIdempotent == fPc = "twice" => fOut2 = fOut1

-----------------------------------------------------------------------------
(* Scope candidates of the analysed change set, for the claims below *)

\* the candidates with the maximum tally
MaxTallyScopes(files) ==
    {sc \in {FirstSegment(files[i]) : i \in 1..Len(files)} \ {<<>>} :
        \A i \in 1..Len(files) :
            FirstSegment(files[i]) # <<>>
                => ScopeCount(files, FirstSegment(files[i]))
                       <= ScopeCount(files, sc)}

\* position of x in xs
IndexIn(xs, x) == CHOOSE i \in 1..Len(xs) : xs[i] = x

\* the candidate of a set that comes first / last in a sequence of candidates
FirstOf(order, cands) ==
    CHOOSE sc \in cands : \A o \in cands : IndexIn(order, sc) <= IndexIn(order, o)
LastOf(order, cands) ==
    CHOOSE sc \in cands : \A o \in cands : IndexIn(order, sc) >= IndexIn(order, o)

(* C4 (as stated): the inferred scope is a candidate with the maximum tally,
   and among several with the maximum tally it is the one the tally met
   first (earliest in insertion order of the scope-count mapping). *)
C4_TieFirstEncountered ==
    (cPc = "analyzed" /\ MaxTallyScopes(analysis.files) # {})
        => analysis.scope
             = FirstOf(ScopeInsertionOrder(analysis.files),
                       MaxTallyScopes(analysis.files))

(* C4 (amended): the inferred scope is a candidate with the maximum tally,
   and among several with the maximum tally it is the one that the
   scope-count mapping enumerates last: its keys are enumerated with
   integer-like names first, in ascending numeric order, then the other
   names in insertion order. *)
C4_TieLastEnumerated ==
    (cPc = "analyzed" /\ MaxTallyScopes(analysis.files) # {})
        => /\ analysis.scope \in MaxTallyScopes(analysis.files)
           /\ analysis.scope
                = LastOf(SortNumeric(SelectSeq(
                             ScopeInsertionOrder(analysis.files), IsIntegerKey))
                         \o SelectSeq(ScopeInsertionOrder(analysis.files),
                                      LAMBDA k : ~IsIntegerKey(k)),
                         MaxTallyScopes(analysis.files))

\* a tie between two candidates, and a max-tally candidate not met first
C4_Witness ==
    /\ cPc = "analyzed"
    /\ Cardinality(MaxTallyScopes(analysis.files)) >= 2
    /\ analysis.scope
         # FirstOf(ScopeInsertionOrder(analysis.files),
                   MaxTallyScopes(analysis.files))

(* C5: whenever hasChanges() is true for a repository state, the change set
   analyzeChanges computes for that state is non-empty, whatever the status
   categories of its entries (untracked-only and renamed-only included). *)
C5_ChangeSetNonEmpty ==
    (cPc = "analyzed" /\ hasChangesResult) => Len(analysis.files) > 0

-----------------------------------------------------------------------------
(* Candidates of generateMultipleOptions, for the claims below *)

\* the values of the settled calls
SettledValues == {promises[i].value : i \in 1..Len(promises)}

\* the first launched call that produced candidate v
FirstLaunchIndex(v) ==
    CHOOSE i \in 1..Len(promises) :
        /\ promises[i].value = v
        /\ \A j \in 1..(i - 1) : promises[j].value # v

\* the position, in completion order, of the first call to complete with v
FirstCompletionPos(v) ==
    CHOOSE k \in 1..Len(completionOrder) :
        /\ promises[completionOrder[k]].value = v
        /\ \A j \in 1..(k - 1) : promises[completionOrder[j]].value # v

(* C2 (as stated): generateMultipleOptions returns the de-duplicated
   results in first-completion order: the surviving candidates appear in
   the order in which their requests completed. *)
C2_FirstCompletionOrder ==
    mPc = "returned" =>
        \A p, q \in 1..Len(mResults) :
            p < q => FirstCompletionPos(mResults[p])
                        < FirstCompletionPos(mResults[q])

(* C2 (amended): generateMultipleOptions returns the de-duplicated results
   in launch order: whatever the order in which the calls complete, the
   surviving candidates are exactly the distinct results, each at the
   position of the first launched request that produced it. *)
C2_LaunchOrder ==
    mPc = "returned" =>
        /\ {mResults[k] : k \in 1..Len(mResults)} = SettledValues
        /\ \A p, q \in 1..Len(mResults) :
              p < q => FirstLaunchIndex(mResults[p])
                          < FirstLaunchIndex(mResults[q])

\* two distinct candidates returned by calls that completed in the reverse
\* of their launch order
C2_Witness ==
    /\ mPc = "returned"
    /\ Len(mResults) >= 2
    /\ FirstCompletionPos(mResults[2]) < FirstCompletionPos(mResults[1])

(* C3: generateCommitMessage returns null only when the directory is not a
   repository or has no pending changes, and a failure of a version-control
   call or of the generation backend is not returned as null. *)
C3_NullMeansNothingToDo ==
    oPc = "done" =>
        /\ oResult = Null
              => (~isRepo \/ ~hasChanges(GitStatus(repoStatus)))
        /\ oFailure # "" => oResult # Null

(* C6: the temperature and max_tokens of every request equal the
   configured values, for every valid configuration (maxTokens > 0,
   temperature in [0, 1], the boundary 0 included) and both providers. *)
C6_RequestCarriesConfig ==
    gPc \in {"awaiting", "done"} =>
        /\ request.temperature = config.temperature
        /\ request.max_tokens = config.maxTokens
        /\ request.model = config.model

\* the kind of a generation error in the provider-agnostic taxonomy: the
\* kinds a caller can tell apart from the error it receives
BackendErrorKind(e) ==
    CASE e.prefix = "OpenAI invalid key" -> "AuthError"
      [] e.prefix = "OpenAI quota" -> "QuotaExceeded"
      [] e.prefix \in {InvalidOpenAIResponse, InvalidDashScopeResponse}
            -> "InvalidResponse"
      [] OTHER -> "Unknown"

(* C7: for both providers a request rejected for invalid credentials fails
   with AuthError and one rejected for insufficient quota with
   QuotaExceeded; any other rejection becomes Unknown. *)
C7_ErrorTaxonomy ==
    (gPc = "done" /\ response.kind = "api_error") =>
        /\ gResult.status = "rejected"
        /\ BackendErrorKind(gResult.error)
             = CASE response.cause = "invalid_credentials" -> "AuthError"
                 [] response.cause = "insufficient_quota" -> "QuotaExceeded"
                 [] OTHER -> "Unknown"

(* C8: when the response has no choices (an empty or a missing list),
   generate fails with an error of kind InvalidResponse and the formatter
   is not invoked, for both providers. *)
C8_InvalidResponse ==
    (gPc = "done" /\ response.kind = "reply"
        /\ (~response.hasChoices \/ response.choices = <<>>)) =>
        /\ gResult.status = "rejected"
        /\ BackendErrorKind(gResult.error) = "InvalidResponse"
        /\ formatCalls = 0

(* C9: generateMultipleOptions is fail-fast and all-or-nothing: once one of
   the count calls has failed the operation has failed, with the error of
   generateMultipleOptions and without any candidate, whatever the other
   calls have done or do afterwards. *)
C9_FailFast ==
    (mPc # "ready" /\ \E i \in 1..Len(promises) :
                          promises[i].status = "rejected")
        => /\ mPc = "threw"
           /\ mResults = <<>>
           /\ mError.prefix = "multiple options failed: "

\* the operation has failed while one call is still pending and another
\* had succeeded
C9_Witness ==
    /\ mPc = "threw"
    /\ \E i \in 1..Len(promises) : promises[i].status = "pending"
    /\ \E i \in 1..Len(promises) : promises[i].status = "fulfilled"

(* C10: generateMultipleOptions(count) sends exactly count requests, one
   per call and none again, and has not returned while a call is pending
   and none has failed; it returns only when every call is fulfilled. *)
C10_JoinBarrier ==
    mPc # "ready" =>
        /\ Len(promises) = count
        /\ Len(requestsSent) = count
        /\ \A i \in 1..count : requestsSent[i] = 1
        /\ ((\E i \in 1..count : promises[i].status = "pending")
               /\ (\A i \in 1..count : promises[i].status # "rejected"))
              => mPc = "waiting"
        /\ mPc = "returned"
              => \A i \in 1..count : promises[i].status = "fulfilled"

\* the operation is waiting with one call fulfilled and another pending
C10_Witness ==
    /\ mPc = "waiting"
    /\ \E i \in 1..count : promises[i].status = "fulfilled"
    /\ \E i \in 1..count : promises[i].status = "pending"

-----------------------------------------------------------------------------
\* the answers the provider gave to the calls
BackendReplies == {replies[i] : i \in 1..Len(replies)}

(* C11 (as stated): when all count calls succeed (count >= 1),
   generateMultipleOptions returns pairwise distinct candidates, as many as
   there are distinct backend responses, between 1 and count of them. *)
C11_OnePerDistinctResponse ==
    (mPc = "returned" /\ count >= 1) =>
        /\ \A p, q \in 1..Len(mResults) : p # q => mResults[p] # mResults[q]
        /\ Len(mResults) = Cardinality(BackendReplies)
        /\ 1 <= Len(mResults) /\ Len(mResults) <= count

(* C11 (amended): when all count calls succeed (count >= 1),
   generateMultipleOptions returns pairwise distinct candidates, as many as
   there are distinct results of the generate calls, that is distinct
   messages after trimming and formatting, between 1 and count of them. *)
C11_OnePerDistinctCandidate ==
    (mPc = "returned" /\ count >= 1) =>
        /\ \A p, q \in 1..Len(mResults) : p # q => mResults[p] # mResults[q]
        /\ Len(mResults) = Cardinality(SettledValues)
        /\ 1 <= Len(mResults) /\ Len(mResults) <= count

\* three calls succeeded, two of them with the same candidate from
\* different provider answers
C11_Witness ==
    /\ mPc = "returned"
    /\ count = 3
    /\ Len(mResults) = 2
    /\ Cardinality(BackendReplies) = 3

-----------------------------------------------------------------------------
\* the repository has no pending change of any kind
NothingPending == \A p \in Paths : repoStatus[p] = ""

(* C12: when the directory is not a repository or has no pending changes,
   generateCommitMessage returns null and generateMultipleOptions returns
   the empty sequence, and during the run no request is made to the
   generation backend and neither the diff, the analysis nor the commit
   history is read. *)
C12_NothingToDo ==
    (~isRepo \/ NothingPending) =>
        /\ oPc = "done" => oResult = Nothing
        /\ request = NoRequest
        /\ requestsSent = <<>>
        /\ \A k \in 1..Len(gitCalls) : gitCalls[k] \in {"isGitRepo", "hasChanges"}
        /\ cPc = "idle"
        /\ oPc \in {"start", "checkChanges", "done"}

\* generateMultipleOptions has returned [] in a repository without changes
C12_Witness ==
    /\ isRepo /\ NothingPending
    /\ entry = "multiple"
    /\ oPc = "done"
    /\ oResult = Options(<<>>)
    /\ gitCalls = <<"isGitRepo", "hasChanges">>

-----------------------------------------------------------------------------
\* the number of lines of a text: one more than its newlines
LineCount(text) ==
    1 + Cardinality({i \in 1..Len(text) : text[i] = NL})

(* C13: a diff of at most 50 lines is returned unchanged by truncateDiff;
   a diff of more than 50 lines gives exactly 51 lines, the first 50 being
   the first 50 lines of the diff in order and the 51st the literal
   '... (truncated)'. *)
C13_Truncation ==
    tPc = "done" =>
        IF LineCount(tDiff) <= 50
        THEN tOut = tDiff
        ELSE /\ LineCount(tOut) = 51
             /\ \A i \in 1..50 : Split(tOut, NL)[i] = Split(tDiff, NL)[i]
             /\ Split(tOut, NL)[51] = TruncatedMarker

\* a diff of 50 lines and a final newline, 51 lines once split, was cut
C13_Witness ==
    /\ tPc = "done"
    /\ LineCount(tDiff) = 51
    /\ tDiff[Len(tDiff)] = NL
    /\ tOut # tDiff

-----------------------------------------------------------------------------
\* the number of lines of a text that start with c: the occurrences of c at
\* the start of the text or right after a newline
LinesStartingWith(text, c) ==
    Cardinality({i \in 1..Len(text) :
                    text[i] = c /\ (i = 1 \/ text[i - 1] = NL)})

\* the diff text analyzeChanges reads: the staged diff, or the working diff
\* when the staged diff is empty
AnalyzedDiff == IF stagedDiff = <<>> THEN workingDiff ELSE stagedDiff

(* C14: for a diff with k lines starting with '+' and m lines starting with
   '-', the header lines '+++' and '---' counted like any other,
   analyzeChanges yields stats.additions = k and stats.deletions = m. *)
C14_Stats ==
    cPc = "analyzed" =>
        /\ analysis.stats.additions = LinesStartingWith(AnalyzedDiff, "+")
        /\ analysis.stats.deletions = LinesStartingWith(AnalyzedDiff, "-")

\* a diff with the two header lines was counted: one addition, one deletion
C14_Witness ==
    /\ cPc = "analyzed"
    /\ stagedDiff = DiffOfLines("header", 2, TRUE)
    /\ analysis.stats.additions = 1
    /\ analysis.stats.deletions = 1

-----------------------------------------------------------------------------
\* the paths of the repository state with one of the codes
PathSet(codes) == {p \in DOMAIN repoStatus : repoStatus[p] \in codes}

\* some staged, modified, created or deleted path contains sub
ChangedPathContains(sub) ==
    \E p \in PathSet({" M", "M ", "A ", " D"}) : Includes(p, sub)

(* C15: type inference applies its rules in fixed priority, first match
   wins: a created file gives feat; else a deleted file gives feat; else a
   changed path containing 'test' gives test; else one containing 'doc' or
   'README' gives docs; else one containing 'config' or 'package.json'
   gives chore; else feat. *)
C15_TypePriority ==
    cPc = "analyzed" =>
        analysis.type =
            IF PathSet({"A "}) # {} THEN feat
            ELSE IF PathSet({" D"}) # {} THEN feat
            ELSE IF ChangedPathContains(test) THEN test
            ELSE IF ChangedPathContains(<<"d", "o", "c">>)
                    \/ ChangedPathContains(README) THEN docs
            ELSE IF ChangedPathContains(<<"c", "o", "n", "f", "i", "g">>)
                    \/ ChangedPathContains(<<"p", "a", "c", "k", "a", "g", "e",
                                             ".", "j", "s", "o", "n">>)
                 THEN chore
            ELSE feat

\* a test path overrides a docs path and a config path, none of them
\* created or deleted
C15_Witness ==
    /\ cPc = "analyzed"
    /\ PathSet({"A ", " D"}) = {}
    /\ PathSet({" M"}) = {pTest, pDocs, pConfig}
    /\ analysis.type = test

-----------------------------------------------------------------------------
\* the sequences with the elements of xs in every order
AllOrders(xs) ==
    {[i \in 1..Len(xs) |-> xs[f[i]]] : f \in Permutations(1..Len(xs))}

\* the file-status inputs with the same lists as changes, in every order
Reorderings(changes) ==
    {[ staged |-> st, modified |-> mo, created |-> cr, deleted |-> de,
       renamed |-> changes.renamed ] :
        st \in AllOrders(changes.staged),
        mo \in AllOrders(changes.modified),
        cr \in AllOrders(changes.created),
        de \in AllOrders(changes.deleted)}

(* C16: classification is order-independent: two file-status inputs whose
   staged, modified, created and deleted lists hold the same paths in
   different orders get the same type from analyzeChanges. *)
C16_OrderIndependent ==
    cPc = "analyzed" =>
        \A other \in Reorderings(getChangedFiles(GitStatus(repoStatus))) :
            InferType(other, ChangeSet(other)) = analysis.type

\* a test path and a docs path, both modified: the type is test in both
\* orders of the modified list
C16_Witness ==
    /\ cPc = "analyzed"
    /\ PathSet({" M"}) = {pTest, pDocs}
    /\ PathSet({"A ", " D"}) = {}
    /\ Cardinality(Reorderings(getChangedFiles(GitStatus(repoStatus)))) = 2
    /\ analysis.type = test

-----------------------------------------------------------------------------
(* C17: the inferred scope is empty exactly when no changed path contains
   a directory separator, and otherwise it is the first path segment of
   some changed path; a single created file 'src/a.js' with a diff of 10
   '+' lines yields type feat, scope 'src', filesChanged 1, additions 10,
   deletions 0. *)
C17_ScopeOfChangedPaths ==
    cPc = "analyzed" =>
        /\ analysis.scope = <<>>
              <=> \A i \in 1..Len(analysis.files) :
                      ~Includes(analysis.files[i], <<"/">>)
        /\ analysis.scope # <<>>
              => \E i \in 1..Len(analysis.files) :
                     analysis.scope = FirstSegment(analysis.files[i])
        /\ (PathSet({"A "}) = {pSrcAJs} /\ PathSet({" M", " D"}) = {}
               /\ stagedDiff = DiffOfLines("added", 10, FALSE))
              => /\ analysis.type = feat
                 /\ analysis.scope = <<"s", "r", "c">>
                 /\ analysis.stats
                      = [additions |-> 10, deletions |-> 0, filesChanged |-> 1]

-----------------------------------------------------------------------------
\* the raw message the formatter is given: the trimmed reply
RawMessage == Trim(fContent)

(* C18: a raw message that already matches
   ^(feat|fix|docs|style|refactor|test|chore)(\(.+\))?: .+  is returned by
   formatCommitMessage exactly as given, for every style and every
   analysis. *)
C18_ConventionalUnchanged ==
    /\ (fPc \in {"once", "twice"} /\ isConventionalFormat(RawMessage))
          => fOut1 = RawMessage
    /\ (fPc = "twice" /\ isConventionalFormat(fOut1)) => fOut2 = fOut1

\* a message with a tag and a scope of its own was formatted in conventional
\* style with an analysis of another type and scope
C18_Witness ==
    /\ fPc = "once"
    /\ fStyle = "conventional"
    /\ RawMessage = feat \o <<"(", "a", ")", ":", " ", "a">>
    /\ fAnalysis = [type |-> docs, scope |-> <<"s", "r", "c">>]
    /\ fOut1 = RawMessage

(* C19: for a raw message that does not match the conventional-commit
   shape, the result is '<type>(<scope>): <raw>' when the style is
   conventional, the parenthesized scope omitted when the scope is empty,
   and the raw message unchanged when the style is free. *)
C19_PrefixOrUnchanged ==
    (fPc \in {"once", "twice"} /\ ~isConventionalFormat(RawMessage)) =>
        fOut1 = IF fStyle = "free" THEN RawMessage
                ELSE IF fAnalysis.scope = <<>>
                     THEN fAnalysis.type \o <<":", " ">> \o RawMessage
                     ELSE fAnalysis.type \o <<"(">> \o fAnalysis.scope
                              \o <<")", ":", " ">> \o RawMessage

\* a message without a tag was prefixed with the type and the scope
C19_Witness ==
    /\ fPc = "once"
    /\ fStyle = "conventional"
    /\ RawMessage = <<"a">>
    /\ fAnalysis.scope = <<"s", "r", "c">>
    /\ fOut1 = fAnalysis.type \o <<"(", "s", "r", "c", ")", ":", " ", "a">>

-----------------------------------------------------------------------------
(* C20: validateApiKey never raises: whatever the probe request's outcome
   (success, HTTP error, network failure) and for both providers it returns
   a boolean, true only when the probe request succeeded, and the request
   it sends has a budget of 1 token. *)
C20_ValidateNeverRaises ==
    /\ gPc \in {"probing", "validated"} => request.max_tokens = 1
    /\ gPc = "validated" =>
          /\ gResult.status = "fulfilled"
          /\ gResult.value \in BOOLEAN
          /\ gResult.value => response.kind = "answered"

\* the probe was rejected for invalid credentials and validateApiKey
\* returned false
C20_Witness ==
    /\ gPc = "validated"
    /\ response.kind = "api_error"
    /\ response.cause = "invalid_credentials"
    /\ gResult.status = "fulfilled"
    /\ gResult.value = FALSE

-----------------------------------------------------------------------------
\* a text with a character that is not whitespace
NonBlank(text) == \E i \in 1..Len(text) : ~IsWhitespace(text[i])

\* getDiff() has been called and has returned
DiffWasRead ==
    /\ \E k \in 1..Len(gitCalls) : gitCalls[k] = "getDiff"
    /\ oFailure # "diff"

(* C21: getDiff returns the staged diff whenever the staged diff is
   non-blank (has a non-whitespace character) and otherwise the working
   diff; the working diff is never returned while a non-blank staged diff
   exists. *)
C21_StagedFirst ==
    DiffWasRead =>
        diff = IF NonBlank(stagedDiff) THEN stagedDiff ELSE workingDiff

\* the staged diff is blank but not empty, and the working diff was returned
C21_Witness ==
    /\ DiffWasRead
    /\ stagedDiff = <<" ", NL>>
    /\ workingDiff = <<"+", "a">>
    /\ diff = workingDiff

-----------------------------------------------------------------------------
(* commitChanges, for the claims below *)

\* the git commands commitChanges has run
OpsRun == [i \in 1..Len(gitOps) |-> gitOps[i].op]
Ran(op) == \E i \in 1..Len(gitOps) : gitOps[i].op = op

\* commitChanges has read the status and run the next command
ActedOnStatus == commitPc \in {"returned", "threw"} /\ Len(gitOps) >= 2

\* stage-all runs exactly when the index is empty and the tree has changes
StagesExactlyWhenNeeded ==
    ActedOnStatus =>
        (Ran("add") <=>
            (IndexPaths(repoAtCall) = {} /\ WorkingPaths(repoAtCall) # {}))

\* a commit made from a non-empty index holds exactly its entries
CommitsTheIndexOnly ==
    (commitPc = "returned" /\ IndexPaths(repoAtCall) # {}) =>
        /\ history # <<>>
        /\ history[Len(history)].paths = IndexPaths(repoAtCall)

StageAllBeforeCommit ==
    OpsRun \in { <<>>, <<"status">>, <<"status", "add">>,
                 <<"status", "commit">>, <<"status", "add", "commit">> }

CommitsGivenMessage ==
    \A i \in 1..Len(history) : history[i].message = commitMessage

FailureRaisesOnce ==
    /\ \A i \in 1..Len(gitOps) :
        ~gitOps[i].ok =>
            i = Len(gitOps) /\ commitPc = "threw"
                /\ commitError # NoCommitError
    /\ commitPc = "returned" => \A i \in 1..Len(gitOps) : gitOps[i].ok

(* C22: commitChanges(message) stages everything before committing exactly
   when the index has no staged entries and the working tree has changes;
   when staged entries exist it commits without staging anything more; the
   stage-all step, when taken, precedes the commit; the commit uses the
   given message; and a failure of any step raises an error instead of
   being retried. *)
C22_StageThenCommit ==
    /\ StagesExactlyWhenNeeded
    /\ CommitsTheIndexOnly
    /\ StageAllBeforeCommit
    /\ CommitsGivenMessage
    /\ FailureRaisesOnce

(* C23: gac commit -m <message> commits the changes with exactly that
   message, staging all changes first when -a is given, and reports
   completion, without going through interactive generation. *)
C23_CommitWithGivenMessage ==
    (cmdPc = "done" /\ cmdOptions.message # "") =>
        /\ (IndexPaths(repoAtCall) \cup WorkingPaths(repoAtCall) # {}) =>
            /\ Len(history) = 1
            /\ history[1].message = cmdOptions.message
        /\ cmdOptions.add => Ran("add")
        /\ cmdReport = "committed"
        /\ cmdExit = 0

\* the analysis that goes to the backend has been computed in this run
AnalysisReady == cPc = "analyzed" /\ DiffWasRead

(* C24: within one generateCommitMessage or generateMultipleOptions call
   the analysis passed to the backend is the classification of the diff
   text passed to the backend: its statistics are counted on the text
   getDiff returned, also when the staged diff is non-empty but blank and
   when the repository changes between the reads. *)
C24_AnalysisOfPassedDiff ==
    AnalysisReady =>
        /\ analysis.stats.additions = LinesStartingWith(diff, "+")
        /\ analysis.stats.deletions = LinesStartingWith(diff, "-")

-----------------------------------------------------------------------------
(* The hooks directory, for the claims below *)

\* the hook file and the backup files after the i-th operation of the run
HookAfter(i) == IF i < Len(hookTrail) THEN hookTrail[i + 1].hook ELSE hookFile
BackupsAfter(i) ==
    IF i < Len(hookTrail) THEN hookTrail[i + 1].backups ELSE backups

\* no hook file, or a hook file without the tool's marker
NoneOrForeign(hook) == ~hook.exists \/ ~Includes(hook.content, HookMarker)

\* the operations i..j-1 are installs, the first of their run, and j is an
\* uninstall
InstallsThenUninstall(i, j) ==
    /\ i < j
    /\ \A k \in i..(j - 1) : hookTrail[k].op = "install"
    /\ i = 1 \/ hookTrail[i - 1].op # "install"
    /\ hookTrail[j].op = "uninstall"

(* C25: hook round trip: from any state of the hooks directory reachable by
   install and uninstall operations and by external edits of the hook file,
   installHook followed by uninstallHook leaves the prepare-commit-msg hook
   as it was before the install: the same foreign content when a foreign
   hook existed, and no hook file when none existed. *)
C25_RoundTrip ==
    \A i \in 1..(Len(hookTrail) - 1) :
        ( /\ hookTrail[i].op = "install"
          /\ hookTrail[i + 1].op = "uninstall"
          /\ NoneOrForeign(hookTrail[i].hook) )
            => HookAfter(i + 1) = hookTrail[i].hook

(* C26: installHook is idempotent: when the tool's own hook is already
   installed, a further installHook returns true, leaves the hook file
   unchanged and creates no backup file, so that any number of installs
   followed by one uninstall restores the hook that preceded the first
   install. *)
C26_InstallIdempotent ==
    /\ \A i \in 1..Len(hookTrail) :
        ( /\ hookTrail[i].op = "install"
          /\ hookTrail[i].hook = File(HookScript) )
            => /\ hookTrail[i].returned = TRUE
               /\ HookAfter(i) = hookTrail[i].hook
               /\ BackupsAfter(i) = hookTrail[i].backups
    /\ \A i \in 1..Len(hookTrail), j \in 1..Len(hookTrail) :
        (InstallsThenUninstall(i, j) /\ NoneOrForeign(hookTrail[i].hook))
            => HookAfter(j) = hookTrail[i].hook

(* C27: uninstallHook never removes or alters a hook the tool did not
   install: when the hook file exists without the tool's marker it returns
   false and leaves the hook file and every backup file unchanged; when no
   hook file exists it returns true and changes nothing. *)
C27_ForeignHookKept ==
    \A i \in 1..Len(hookTrail) :
        (hookTrail[i].op = "uninstall" /\ NoneOrForeign(hookTrail[i].hook))
            => /\ hookTrail[i].returned = ~hookTrail[i].hook.exists
               /\ HookAfter(i) = hookTrail[i].hook
               /\ BackupsAfter(i) = hookTrail[i].backups

\* uninstall was run on a foreign hook while a backup file existed
C27_Witness ==
    \E i \in 1..Len(hookTrail) :
        /\ hookTrail[i].op = "uninstall"
        /\ hookTrail[i].hook = File(ForeignB)
        /\ hookTrail[i].backups # {}
        /\ hookTrail[i].returned = FALSE

-----------------------------------------------------------------------------
(* Set-up, hook mode and the config command, for the claims below *)

\* what generateCommitMessage wrote to standard output
PrintedToStdout == SelectSeq(printed, LAMBDA l : l.stream = "stdout")

\* generateCommitMessage returned a non-empty message
MessageGenerated == oResult.kind = "message" /\ oResult.value # <<>>

HookModeEnded == exitStatus # NotExited

(* C28: hook mode (generate --hook) is silent and non-interactive: on every
   path the process writes to standard output nothing but the generated
   commit message, never opens an interactive prompt (an unconfigured or
   invalid API key is an error, not a configuration dialog), and exits with
   status 0 exactly when a message was generated and with a non-zero status
   otherwise. *)
C28_HookModeSilent ==
    /\ PrintedToStdout = <<>>
    /\ Len(stdout) = IF exitStatus = 0 THEN 1 ELSE 0
    /\ exitStatus = 0 => stdout[1] = oResult.value
    /\ prompts = 0 /\ dialogs = 0 /\ sPc # "configuring"
    /\ HookModeEnded =>
        /\ exitStatus \in {0, 1}
        /\ exitStatus = 0 <=> MessageGenerated
        /\ (~lastProbe.done \/ ~lastProbe.valid) => exitStatus = 1

\* a run that printed its message and exited with 0, and nothing else
C28_Witness ==
    /\ exitStatus = 0
    /\ MessageGenerated
    /\ stdout = <<oResult.value>>
    /\ silent

\* the key of the provider the configuration selects
KeyOfProvider(cfg) ==
    IF cfg.aiProvider = "openai" THEN cfg.openaiApiKey
    ELSE IF cfg.aiProvider = "dashscope" THEN cfg.dashscopeApiKey
    ELSE ""

(* C29: when the config command is given an invalid --set-language or
   --set-style value, it is rejected and the persisted configuration is
   left unchanged, also when other --set-* options (key, model, language)
   are given in the same invocation. *)
C29_InvalidValueChangesNothing ==
    ( /\ cfgPc = "done"
      /\ SetsOptions(cfgOptions)
      /\ \/ cfgOptions.setLanguage \notin {"", "zh-CN", "en"}
         \/ cfgOptions.setStyle \notin {"", "conventional", "free"} )
        => /\ cfgOut \in {"invalid language", "invalid style"}
           /\ configFile = fileAtStart

(* C30: whenever initializeAI returns normally, the generator it installed
   was built from a configuration that is complete (non-empty key for the
   selected provider) and whose validation probe returned true; in
   interactive mode an incomplete or invalid configuration leads only to
   reconfiguration followed by a fresh check or to process exit, and in
   silent mode only to an error, never to a normal return with an
   unvalidated generator. *)
C30_ValidatedGenerator ==
    /\ sPc = "returned" =>
        /\ aiGenerator.built
        /\ KeyOfProvider(aiGenerator.config) # ""
        /\ aiGenerator.config = getConfig(configFile)
        /\ lastProbe = Probe(aiGenerator.config, TRUE)
    /\ sPc = "configuring" =>
        /\ ~silent
        /\ \/ KeyOfProvider(getConfig(configFile)) = ""
           \/ lastProbe = Probe(getConfig(configFile), FALSE)
    /\ sPc = "exited" =>
        ~silent /\ exitStatus = 1 /\ lastProbe.done /\ ~lastProbe.valid
    /\ sPc = "threw" =>
        /\ silent
        /\ sError # ""
        /\ \/ KeyOfProvider(getConfig(configFile)) = ""
           \/ (lastProbe.done /\ ~lastProbe.valid)
    /\ silent => prompts = 0 /\ dialogs = 0

\* an interactive run that returned after the configuration was entered anew
C30_Witness ==
    /\ sPc = "returned"
    /\ ~silent
    /\ dialogs > 0
    /\ lastProbe = Probe(getConfig(configFile), TRUE)

====
